---------------------------- MODULE Spec2Model ----------------------------
(***************************************************************************)
(* A model of the trading-advice pipeline of detection/src:               *)
(*   indicators.py       TechnicalIndicators                               *)
(*   trading_theory.py   FibonacciAnalysis, ElliottWaveAnalysis,           *)
(*                       ChanTheoryAnalysis, WyckoffAnalysis               *)
(*   trading_advisor.py  TradingAdvisor                                    *)
(*                                                                         *)
(* Number representation.  A candle window carries its prices as integer   *)
(* counts of ticks together with the number `den` of ticks per price unit  *)
(* (price = ticks / den), and its volumes as integers.  Every quantity the *)
(* code derives is kept in a unit in which it is an exact integer where    *)
(* that is possible:                                                       *)
(*   MA value            1/60 tick      (sum * 60 / period)                *)
(*   ATR                 1/14 tick      (sum of 14 true ranges)            *)
(*   Fibonacci level     1/1000 tick                                       *)
(*   BOLL                the window sum s and V = 20*sum(x^2) - s^2, so    *)
(*                       MIDDLE = s/20 and STD = sqrt(V)/20                *)
(*   ladder prices       1/7000 tick before round(x, 2), hundredths of a   *)
(*                       price unit after it                               *)
(*   scores              thousandths                                       *)
(* The recursive smoothings (EMA, MACD, KDJ) and RSI have no common        *)
(* denominator and are kept in fixed point, FP units per tick (per point   *)
(* for KDJ and RSI), each division rounding down.  Python's None is the    *)
(* empty tuple and a present value x the 1-tuple <<x>>.  Chinese labels    *)
(* are rendered by ASCII strings, given next to each use.                  *)
(***************************************************************************)
EXTENDS Integers, Sequences, FiniteSets, TLC

VARIABLES klines, result, advisors, calls, args, ret, batch, ws_client

vars == <<klines, result, advisors, calls, args, ret, batch, ws_client>>

None == <<>>
Some(x) == <<x>>

FP == 10^5

Abs(x) == IF x < 0 THEN -x ELSE x
Max2(a, b) == IF a >= b THEN a ELSE b
Min2(a, b) == IF a <= b THEN a ELSE b

Last(s) == s[Len(s)]

\* the list [f[1], ..., f[n]] of a function on 1..n
ListOf(f, n) == SubSeq(f, 1, n)

\* s[lo..hi] of Python's s[lo-1:hi] clipped to the sequence, 1-based inclusive
Slice(s, lo, hi) == SubSeq(s, Max2(lo, 1), Min2(hi, Len(s)))

\* sum, max and min of s[lo..hi] (1-based, inclusive)
RECURSIVE SumRange(_, _, _)
SumRange(s, lo, hi) == IF lo > hi THEN 0 ELSE s[hi] + SumRange(s, lo, hi - 1)

RECURSIVE MaxRange(_, _, _)
MaxRange(s, lo, hi) == IF lo >= hi THEN s[hi] ELSE Max2(s[hi], MaxRange(s, lo, hi - 1))

RECURSIVE MinRange(_, _, _)
MinRange(s, lo, hi) == IF lo >= hi THEN s[hi] ELSE Min2(s[hi], MinRange(s, lo, hi - 1))

SumSeq(s) == SumRange(s, 1, Len(s))
MaxSeq(s) == MaxRange(s, 1, Len(s))
MinSeq(s) == MinRange(s, 1, Len(s))

\* round(n/d) to the nearest integer, ties to even, d > 0: Python's round(x, 2)
\* on the exact value x = n/d hundredths
RoundHalfEven(n, d) ==
    LET q == n \div d
        r == n % d
    IN  IF 2 * r < d THEN q
        ELSE IF 2 * r > d THEN q + 1
        ELSE IF q % 2 = 0 THEN q ELSE q + 1

-----------------------------------------------------------------------------
(* indicators.py: TechnicalIndicators                                      *)

MA_PERIODS == <<5, 10, 20, 30, 60>>
MA_UNIT == MA_PERIODS[5]

\* a variant of calculate_ma_period whose first average is one position late
calculate_ma_period_late(prices, period) ==
    IF Len(prices) >= period
    THEN Some(ListOf([i \in 1..Len(prices) |->
                        IF i > period
                        THEN Some(SumRange(prices, i - period + 1, i) * (MA_UNIT \div period))
                        ELSE None], Len(prices)))
    ELSE None

\* calculate_ma for one period: None when len(prices) < period (no entry in
\* the result), else the list with None before position period-1
calculate_ma_period(prices, period) ==
    IF Len(prices) >= period
    THEN Some(ListOf([i \in 1..Len(prices) |->
                        IF i >= period
                        THEN Some(SumRange(prices, i - period + 1, i) * (MA_UNIT \div period))
                        ELSE None], Len(prices)))
    ELSE None

\* calculate_ma: the dict as a sequence of [period, values] in insertion order
calculate_ma(prices, periods) ==
    LET RECURSIVE build(_)
        build(k) == IF k > Len(periods) THEN <<>>
                    ELSE LET values == calculate_ma_period(prices, periods[k])
                         IN  IF values = None THEN build(k + 1)
                             ELSE <<[period |-> periods[k], values |-> values[1]]>> \o build(k + 1)
    IN  build(1)

\* np.mean of a non-empty list of fixed-point values
MeanFP(s) == SumSeq(s) \div Len(s)

\* calculate_ema on fixed-point prices: [SMA of prices[:period]] followed by
\* one smoothed value per later price.  np.mean of an empty slice is NaN.
calculate_ema(prices, period) ==
    LET seed == IF prices = <<>> THEN "NaN" ELSE MeanFP(Slice(prices, 1, period))
        RECURSIVE go(_, _)
        go(i, acc) == IF i > Len(prices) THEN acc
                      ELSE go(i + 1, Append(acc, ((prices[i] - Last(acc)) * 2) \div (period + 1) + Last(acc)))
    IN  go(period + 1, <<seed>>)

ToFP(prices) == ListOf([i \in 1..Len(prices) |-> prices[i] * FP], Len(prices))

MACD_FAST == 12
MACD_SLOW == 26
MACD_SIGNAL == 9

\* calculate_macd.  dif[i + (signal - 1)] is read for every i in range(len(dea)):
\* an index past the end of dif is Python's IndexError.
calculate_macd(prices, fast, slow, signal) ==
    IF Len(prices) < slow THEN [raised |-> None, DIF |-> <<>>, DEA |-> <<>>, MACD |-> <<>>]
    ELSE
    LET ema_fast == calculate_ema(ToFP(prices), fast)
        ema_slow == calculate_ema(ToFP(prices), slow)
        dif == ListOf([i \in 1..Len(ema_slow) |-> ema_fast[i + (slow - fast)] - ema_slow[i]],
                      Len(ema_slow))
        dea == calculate_ema(dif, signal)
    IN  IF \E i \in 1..Len(dea) : i + (signal - 1) > Len(dif)
        THEN [raised |-> Some("IndexError"), DIF |-> dif, DEA |-> dea, MACD |-> <<>>]
        ELSE [raised |-> None, DIF |-> dif, DEA |-> dea,
              MACD |-> ListOf([i \in 1..Len(dea) |-> (dif[i + (signal - 1)] - dea[i]) * 2], Len(dea))]

KDJ_N == 9
KDJ_M1 == 3
KDJ_M2 == 3
KDJ_INIT == 50

\* a variant of kdj_rsv that reports 0 for a window without range
kdj_rsv_zero_on_flat(highest, lowest, c) ==
    IF highest = lowest THEN 0
    ELSE ((c - lowest) * 100 * FP) \div (highest - lowest)

\* the RSV of one window of calculate_kdj: 50 when highest = lowest, else
\* (close - lowest) / (highest - lowest) * 100
kdj_rsv(highest, lowest, c) ==
    IF highest = lowest THEN 50 * FP
    ELSE ((c - lowest) * 100 * FP) \div (highest - lowest)

\* calculate_kdj in fixed point: RSV, then K, D, J per position n-1 .. len-1
calculate_kdj(high, low, close, n, m1, m2) ==
    IF Len(close) < n THEN [K |-> <<>>, D |-> <<>>, J |-> <<>>]
    ELSE
    LET rsv(i) == kdj_rsv(MaxRange(high, i - n + 1, i), MinRange(low, i - n + 1, i), close[i])
        RECURSIVE go(_, _, _, _)
        go(i, k, d, acc) ==
            IF i > Len(close) THEN acc
            ELSE LET k2 == (rsv(i) + (m1 - 1) * k) \div m1
                     d2 == (k2 + (m2 - 1) * d) \div m2
                     j2 == 3 * k2 - 2 * d2
                 IN  go(i + 1, k2, d2, [K |-> Append(acc.K, k2), D |-> Append(acc.D, d2),
                                        J |-> Append(acc.J, j2)])
    IN  go(n, KDJ_INIT * FP, KDJ_INIT * FP, [K |-> <<>>, D |-> <<>>, J |-> <<>>])

BOLL_PERIOD == 20
BOLL_STD_DEV == 2

RECURSIVE SumSqRange(_, _, _)
SumSqRange(s, lo, hi) == IF lo > hi THEN 0 ELSE s[hi] * s[hi] + SumSqRange(s, lo, hi - 1)

\* calculate_boll: one band per position period-1 .. len-1, as the window sum
\* s and V = period * sum(x^2) - s^2 (population variance * period^2):
\* MIDDLE = s / period, STD = sqrt(V) / period, UPPER/LOWER = MIDDLE +- k * STD
calculate_boll(prices, period, std_dev) ==
    IF Len(prices) < period THEN <<>>
    ELSE ListOf([j \in 1..(Len(prices) - period + 1) |->
                   LET s == SumRange(prices, j, j + period - 1)
                   IN  [s |-> s, V |-> period * SumSqRange(prices, j, j + period - 1) - s * s,
                        period |-> period, k |-> std_dev]],
                Len(prices) - period + 1)

RSI_PERIOD == 14

\* a variant of rsi_window that reports the share of the losses
rsi_window_loss_share(G, L) == IF G = 0 THEN 100 * FP ELSE (100 * L * FP) \div (G + L)

\* the RSI of one window of calculate_rsi, from the window sums G of the gains
\* and L of the losses: 100 when the average loss is 0, else
\* 100 - 100 / (1 + rs) with rs = avg_gain / avg_loss, which is 100 * G / (G + L)
rsi_window(G, L) == IF L = 0 THEN 100 * FP ELSE (100 * G * FP) \div (G + L)

\* calculate_rsi: gains and losses of the price changes, simple means over
\* period, one rsi_window per window
calculate_rsi(prices, period) ==
    IF Len(prices) < period + 1 THEN <<>>
    ELSE
    LET change(i) == prices[i + 1] - prices[i]
        gains == ListOf([i \in 1..(Len(prices) - 1) |-> Max2(change(i), 0)], Len(prices) - 1)
        losses == ListOf([i \in 1..(Len(prices) - 1) |-> Abs(Min2(change(i), 0))], Len(prices) - 1)
    IN  ListOf([j \in 1..(Len(gains) - period + 1) |->
                  LET G == SumRange(gains, j, j + period - 1)
                      L == SumRange(losses, j, j + period - 1)
                  IN  rsi_window(G, L)],
               Len(gains) - period + 1)

ATR_PERIOD == 14

\* calculate_atr: true range per candle from the second on, simple mean over
\* period; the value kept is the sum (ATR * period)
calculate_atr(high, low, close, period) ==
    IF Len(close) < period + 1 THEN <<>>
    ELSE
    LET tr_values == ListOf([i \in 1..(Len(close) - 1) |->
                               Max2(high[i + 1] - low[i + 1],
                                    Max2(Abs(high[i + 1] - close[i]), Abs(low[i + 1] - close[i])))],
                            Len(close) - 1)
    IN  ListOf([j \in 1..(Len(tr_values) - period + 1) |-> SumRange(tr_values, j, j + period - 1)],
               Len(tr_values) - period + 1)

-----------------------------------------------------------------------------
(* trading_theory.py                                                       *)

\* FibonacciAnalysis.RETRACEMENT_LEVELS, in thousandths
RETRACEMENT_LEVELS == <<236, 382, 500, 618, 786>>
FIB_UNIT == 10^3

\* calculate_retracement: level = high - (high - low) * ratio, in 1/1000 tick
calculate_retracement(high, low) ==
    [k \in 1..Len(RETRACEMENT_LEVELS) |-> high * FIB_UNIT - (high - low) * RETRACEMENT_LEVELS[k]]

\* sorted(xs): insertion sort, ascending
RECURSIVE Insert(_, _)
Insert(x, s) == IF s = <<>> THEN <<x>>
                ELSE IF x <= s[1] THEN <<x>> \o s
                ELSE <<s[1]>> \o Insert(x, Tail(s))

RECURSIVE Sorted(_)
Sorted(s) == IF s = <<>> THEN <<>> ELSE Insert(s[1], Sorted(Tail(s)))

RECURSIVE Reverse(_)
Reverse(s) == IF s = <<>> THEN <<>> ELSE Append(Reverse(Tail(s)), s[1])

\* a variant of find_support_resistance that counts a level at the price as
\* support
find_support_resistance_inclusive(current_price, high, low) ==
    LET retracement == calculate_retracement(high, low)
        support == SelectSeq(retracement, LAMBDA price : price <= current_price * FIB_UNIT)
        resistance == SelectSeq(retracement, LAMBDA price : ~(price <= current_price * FIB_UNIT))
    IN  [support |-> Reverse(Sorted(support)), resistance |-> Sorted(resistance)]

\* find_support_resistance: current_price in ticks; levels strictly below the
\* price are support (descending), the others resistance (ascending)
find_support_resistance(current_price, high, low) ==
    LET retracement == calculate_retracement(high, low)
        support == SelectSeq(retracement, LAMBDA price : price < current_price * FIB_UNIT)
        resistance == SelectSeq(retracement, LAMBDA price : ~(price < current_price * FIB_UNIT))
    IN  [support |-> Reverse(Sorted(support)), resistance |-> Sorted(resistance)]

\* ElliottWaveAnalysis.identify_wave_pattern.  pattern: "uptrend" (shang sheng
\* qu shi), "downtrend", "sideways" (zhen dang), "uncertain" (bu que ding),
\* "insufficient" (shu ju bu zu); phase: "impulse" (tui dong lang),
\* "corrective" (tiao zheng lang), "consolidation" (pan zheng),
\* "observing" (guan cha zhong), "unknown" (wei zhi)
identify_wave_pattern(prices) ==
    IF Len(prices) < 8 THEN [pattern |-> "insufficient", phase |-> "unknown"]
    ELSE
    LET inner == ListOf([i \in 1..(Len(prices) - 2) |-> i + 1], Len(prices) - 2)
        peaks == SelectSeq(inner, LAMBDA i : prices[i] > prices[i - 1] /\ prices[i] > prices[i + 1])
        troughs == SelectSeq(inner, LAMBDA i : ~(prices[i] > prices[i - 1] /\ prices[i] > prices[i + 1])
                                              /\ prices[i] < prices[i - 1] /\ prices[i] < prices[i + 1])
        pk(k) == prices[peaks[Len(peaks) - k]]
        tr(k) == prices[troughs[Len(troughs) - k]]
        tp == IF Len(peaks) >= 2 /\ Len(troughs) >= 2
              THEN IF pk(0) > pk(1) /\ tr(0) > tr(1) THEN <<"uptrend", "impulse">>
                   ELSE IF pk(0) < pk(1) /\ tr(0) < tr(1) THEN <<"downtrend", "corrective">>
                   ELSE <<"sideways", "consolidation">>
              ELSE <<"uncertain", "observing">>
    IN  [pattern |-> tp[1], phase |-> tp[2], peaks |-> Len(peaks), troughs |-> Len(troughs)]

\* predict_next_move.  prediction: "continue_up" (ji xu shang zhang gai lv gao),
\* "maybe_pullback" (ke neng hui tiao), "continue_down" (ji xu xia die gai lv
\* gao), "maybe_rebound" (ke neng fan tan), "sideways_wait" (zhen dang wei zhu,
\* deng dai tu po); confidence in thousandths
predict_next_move(prices) ==
    LET wave_info == identify_wave_pattern(prices)
        pc == IF wave_info.pattern = "uptrend"
              THEN IF wave_info.phase = "impulse" THEN <<"continue_up", 700>>
                   ELSE <<"maybe_pullback", 600>>
              ELSE IF wave_info.pattern = "downtrend"
              THEN IF wave_info.phase = "impulse" THEN <<"continue_down", 700>>
                   ELSE <<"maybe_rebound", 600>>
              ELSE <<"sideways_wait", 500>>
    IN  [prediction |-> pc[1], confidence |-> pc[2], wave_info |-> wave_info]

\* a variant that also takes the rebound forecast for a rising one
PredictionHasRising_or_rebound(p) == p \in {"continue_up", "maybe_rebound"}

\* str.find("shang zhang") >= 0 on the labels above: the substring "rising"
\* occurs in "continue_up" only
PredictionHasRising(p) == p = "continue_up"

\* a variant that keeps the direction when a segment ends
Flip_keep(direction) == direction

\* the direction taken when a segment ends: direction = 'down' after an up
\* segment, direction = 'up' after a down segment
Flip(direction) == IF direction = "up" THEN "down" ELSE "up"

\* a variant of bi that ends the segment at the candle of the reversal
bi_at_reversal(type, start_idx, start_price, i, close) ==
    [type |-> type, start |-> start_idx, end |-> i,
     start_price |-> start_price, end_price |-> close[i + 1]]

\* the segment appended at position i (0-based) of the loop of identify_bi:
\* it ends at i - 1, whose close is close[i] here
bi(type, start_idx, start_price, i, close) ==
    [type |-> type, start |-> start_idx, end |-> i - 1,
     start_price |-> start_price, end_price |-> close[i]]

\* ChanTheoryAnalysis.identify_bi: the loop over i = 1 .. len-1 (0-based), as
\* a fold over the state (direction, start_idx, start_price, bi_list).
\* Indices in the emitted segments are the code's 0-based ones.
identify_bi(high, low, close) ==
    IF Len(close) < 5 THEN <<>>
    ELSE
    LET RECURSIVE go(_, _, _, _, _)
        go(i, direction, start_idx, start_price, bi_list) ==
            IF i > Len(close) - 1 THEN bi_list
            ELSE LET cur == close[i + 1]
                     prev == close[i]
                 IN  IF direction = "none"
                     THEN go(i + 1, IF cur > prev THEN "up" ELSE IF cur < prev THEN "down" ELSE "none",
                             start_idx, start_price, bi_list)
                     ELSE IF direction = "up"
                     THEN IF cur < prev
                          THEN go(i + 1, Flip(direction), i - 1, prev,
                                  Append(bi_list, bi("up", start_idx, start_price, i, close)))
                          ELSE go(i + 1, direction, start_idx, start_price, bi_list)
                     ELSE IF cur > prev
                          THEN go(i + 1, Flip(direction), i - 1, prev,
                                  Append(bi_list, bi("down", start_idx, start_price, i, close)))
                          ELSE go(i + 1, direction, start_idx, start_price, bi_list)
    IN  go(1, "none", 0, close[1], <<>>)

\* a variant of analyze_trend that looks at all of the last three segments
analyze_trend_all_three(bi_list) ==
    IF Len(bi_list) < 3 THEN [trend |-> "insufficient", strength |-> 0]
    ELSE
    LET recent_bi == SubSeq(bi_list, Len(bi_list) - 2, Len(bi_list))
        ts == IF \A k \in 1..3 : recent_bi[k].type = "up" THEN <<"strong_up", 800>>
              ELSE IF \A k \in 1..3 : recent_bi[k].type = "down" THEN <<"strong_down", 800>>
              ELSE <<"oscillating", 500>>
    IN  [trend |-> ts[1], strength |-> ts[2], bi_count |-> Len(bi_list)]

\* analyze_trend.  trend: "strong_up" (qiang shi shang zhang), "strong_down"
\* (qiang shi xia die), "oscillating" (zhen dang), "insufficient"; strength
\* in thousandths.  recent_bi[::2] of the last three is the first and third.
analyze_trend(bi_list) ==
    IF Len(bi_list) < 3 THEN [trend |-> "insufficient", strength |-> 0]
    ELSE
    LET recent_bi == SubSeq(bi_list, Len(bi_list) - 2, Len(bi_list))
        strided == <<recent_bi[1], recent_bi[3]>>
        ts == IF \A k \in 1..2 : strided[k].type = "up" THEN <<"strong_up", 800>>
              ELSE IF \A k \in 1..2 : strided[k].type = "down" THEN <<"strong_down", 800>>
              ELSE <<"oscillating", 500>>
    IN  [trend |-> ts[1], strength |-> ts[2], bi_count |-> Len(bi_list)]

\* str.find("shang zhang") >= 0 on the trend labels: in "strong_up" only
TrendHasRising(t) == t = "strong_up"

\* n/d compared with cn/cd for d # 0 and cd > 0
RatGT(n, d, cn, cd) == IF d > 0 THEN n * cd > cn * d ELSE n * cd < cn * d
RatLT(n, d, cn, cd) == IF d > 0 THEN n * cd < cn * d ELSE n * cd > cn * d

\* WyckoffAnalysis.identify_phase.  price_change = (last - first) / first is a
\* Python float division: ZeroDivisionError when first = 0.  volume_change is a
\* numpy division: a zero average gives inf (numerator > 0) or nan, kept here
\* as a fraction with den = 0.  phase: "accumulation", "distribution",
\* "markup", "markdown", "observation" (guan cha jie duan), "insufficient"
identify_phase(prices, volumes) ==
    IF Len(prices) < 10 \/ Len(volumes) < 10
    THEN [raised |-> None, phase |-> "insufficient", action |-> "observe"]
    ELSE IF prices[1] = 0
    THEN [raised |-> Some("ZeroDivisionError")]
    ELSE
    LET pn == Last(prices) - prices[1]
        pd == prices[1]
        half == Len(volumes) \div 2
        ne == half
        nl == Len(volumes) - half
        Se == SumRange(volumes, 1, half)
        Sl == SumRange(volumes, half + 1, Len(volumes))
        vn == Sl * ne - Se * nl
        vd == Se * nl
        vc_gt(cn, cd) == IF vd = 0 THEN vn > 0 ELSE RatGT(vn, vd, cn, cd)
        abs_pc_lt_002 == RatLT(Abs(pn), Abs(pd), 2, 100)
        pa == IF abs_pc_lt_002 /\ vc_gt(3, 10)
              THEN IF Last(prices) > prices[Len(prices) - 4]
                   THEN <<"accumulation", "prepare_long">>
                   ELSE <<"distribution", "prepare_short">>
              ELSE IF RatGT(pn, pd, 5, 100) /\ vc_gt(0, 1) THEN <<"markup", "hold_long">>
              ELSE IF RatLT(pn, pd, -5, 100) /\ vc_gt(0, 1) THEN <<"markdown", "hold_short_or_exit">>
              ELSE <<"observation", "wait">>
    IN  [raised |-> None, phase |-> pa[1], action |-> pa[2],
         price_change |-> [num |-> pn, den |-> pd],
         volume_change |-> [num |-> vn, den |-> vd]]

\* WyckoffAnalysis.analyze_supply_demand.  balance: "demand_gt_supply",
\* "supply_gt_demand", "demand_weakening", "supply_weakening", "balanced",
\* "unknown"; trend: "rising" (shang zhang) or "falling" (xia die)
analyze_supply_demand(prices, volumes) ==
    IF Len(prices) < 5 THEN [balance |-> "unknown", strength |-> 0]
    ELSE
    LET recent_prices == SubSeq(prices, Len(prices) - 4, Len(prices))
        recent_volumes == Slice(volumes, Len(volumes) - 4, Len(volumes))
        price_trend == Last(recent_prices) - recent_prices[1]
        n == Len(recent_volumes)
        S == SumSeq(recent_volumes)
        vol_gt == Last(recent_volumes) * n > S
        vol_lt == Last(recent_volumes) * n < S
        bs == IF price_trend > 0 /\ vol_gt THEN <<"demand_gt_supply", 700>>
              ELSE IF price_trend < 0 /\ vol_gt THEN <<"supply_gt_demand", 700>>
              ELSE IF price_trend > 0 /\ vol_lt THEN <<"demand_weakening", 400>>
              ELSE IF price_trend < 0 /\ vol_lt THEN <<"supply_weakening", 400>>
              ELSE <<"balanced", 500>>
    IN  [balance |-> bs[1], strength |-> bs[2],
         trend |-> IF price_trend > 0 THEN "rising" ELSE "falling"]

-----------------------------------------------------------------------------
(* trading_advisor.py: TradingAdvisor.  Scores are in thousandths.         *)

MIN_KLINES == 30

LastOrNone(s) == IF s = <<>> THEN None ELSE Some(Last(s))

RECURSIVE IsSortedDesc(_)
IsSortedDesc(s) == Len(s) < 2 \/ (s[1] >= s[2] /\ IsSortedDesc(Tail(s)))

RECURSIVE IsSortedAsc(_)
IsSortedAsc(s) == Len(s) < 2 \/ (s[1] <= s[2] /\ IsSortedAsc(Tail(s)))

\* _analyze_ma_signal.  trend: "strong_bull", "bull", "strong_bear", "bear",
\* "neutral"; a list compared with its sorted copy is a sortedness test
analyze_ma_signal(current_price, ma_dict) ==
    LET usable == SelectSeq(ma_dict, LAMBDA e : e.values # <<>> /\ Last(e.values) # None)
        above(e) == current_price * MA_UNIT > Last(e.values)[1]
        signals == [k \in 1..Len(usable) |->
                      <<IF above(usable[k]) THEN "above_MA" ELSE "below_MA", usable[k].period>>]
        base == SumSeq([k \in 1..Len(usable) |-> IF above(usable[k]) THEN 1000 ELSE -1000])
        ma_values == [k \in 1..Len(usable) |-> Last(usable[k].values)[1]]
        align == IF IsSortedDesc(ma_values) THEN <<2000, <<<<"bull_alignment", 0>>>> >>
                 ELSE IF IsSortedAsc(ma_values) THEN <<-2000, <<<<"bear_alignment", 0>>>> >>
                 ELSE <<0, <<>> >>
        score == base + align[1]
        trend == IF score > 3000 THEN "strong_bull"
                 ELSE IF score > 0 THEN "bull"
                 ELSE IF score < -3000 THEN "strong_bear"
                 ELSE IF score < 0 THEN "bear"
                 ELSE "neutral"
    IN  [trend |-> trend, score |-> score, signals |-> signals \o align[2]]

\* _analyze_macd_signal.  macd["DEA"][-2] is read when there are two DIF
\* values and dif # dea (the right operand of `and` after a true left one):
\* with a single DEA value that is Python's IndexError.
analyze_macd_signal(macd) ==
    IF macd.DIF = <<>> \/ macd.DEA = <<>>
    THEN [raised |-> None, signal |-> "insufficient", score |-> 0]
    ELSE
    LET dif == Last(macd.DIF)
        dea == Last(macd.DEA)
        macd_bar == Last(macd.MACD)
        dif2 == macd.DIF[Len(macd.DIF) - 1]
        dea2 == macd.DEA[Len(macd.DEA) - 1]
        cross == IF Len(macd.DIF) >= 2
                 THEN IF dif > dea /\ dif2 <= dea2 THEN <<2000, <<"golden_cross">> >>
                      ELSE IF dif < dea /\ dif2 >= dea2 THEN <<-2000, <<"death_cross">> >>
                      ELSE <<0, <<>> >>
                 ELSE <<0, <<>> >>
        axis == IF dif > 0 /\ dea > 0 THEN <<1000, <<"above_zero">> >>
                ELSE IF dif < 0 /\ dea < 0 THEN <<-1000, <<"below_zero">> >>
                ELSE <<0, <<>> >>
        bar == IF macd_bar > 0 THEN <<500, <<"bar_positive">> >> ELSE <<-500, <<"bar_negative">> >>
        score == cross[1] + axis[1] + bar[1]
        signal == IF score > 2000 THEN "strong_buy"
                  ELSE IF score > 0 THEN "buy"
                  ELSE IF score < -2000 THEN "strong_sell"
                  ELSE IF score < 0 THEN "sell"
                  ELSE "wait"
    IN  IF Len(macd.DIF) >= 2 /\ Len(macd.DEA) < 2 /\ dif # dea
        THEN [raised |-> Some("IndexError")]
        ELSE [raised |-> None, signal |-> signal, score |-> score,
              details |-> cross[2] \o axis[2] \o bar[2]]

\* _analyze_kdj_signal.  signal: "buy", "sell", "wait"
analyze_kdj_signal(kdj) ==
    IF kdj.K = <<>> THEN [signal |-> "insufficient", score |-> 0]
    ELSE
    LET k == Last(kdj.K)
        d == Last(kdj.D)
        j == Last(kdj.J)
        zone == IF k > 80 * FP /\ d > 80 * FP THEN <<-1000, <<"overbought">> >>
                ELSE IF k < 20 * FP /\ d < 20 * FP THEN <<1000, <<"oversold">> >>
                ELSE <<0, <<>> >>
        cross == IF Len(kdj.K) >= 2
                 THEN IF k > d /\ kdj.K[Len(kdj.K) - 1] <= kdj.D[Len(kdj.D) - 1]
                      THEN <<1500, <<"golden_cross">> >>
                      ELSE IF k < d /\ kdj.K[Len(kdj.K) - 1] >= kdj.D[Len(kdj.D) - 1]
                      THEN <<-1500, <<"death_cross">> >>
                      ELSE <<0, <<>> >>
                 ELSE <<0, <<>> >>
        jz == IF j > 100 * FP THEN <<-500, <<"J_overbought">> >>
              ELSE IF j < 0 THEN <<500, <<"J_oversold">> >>
              ELSE <<0, <<>> >>
        score == zone[1] + cross[1] + jz[1]
        signal == IF score > 1500 THEN "buy" ELSE IF score < -1500 THEN "sell" ELSE "wait"
    IN  [signal |-> signal, score |-> score, details |-> zone[2] \o cross[2] \o jz[2],
         values |-> [K |-> k, D |-> d, J |-> j]]

\* _analyze_boll_signal.  With X = price * period - s: price > UPPER iff
\* X > k * sqrt(V), price < LOWER iff -X > k * sqrt(V), price > MIDDLE iff
\* X > 0.  bandwidth = (UPPER - LOWER) / MIDDLE = 2k * sqrt(V) / s is a numpy
\* division (inf or nan for s = 0) and only chooses a detail string.
analyze_boll_signal(current_price, boll) ==
    IF boll = <<>> THEN [signal |-> "insufficient", score |-> 0]
    ELSE
    LET b == Last(boll)
        X == current_price * b.period - b.s
        far == X * X > b.k * b.k * b.V
        pos == IF X > 0 /\ far THEN <<-1000, "above_upper">>
               ELSE IF X < 0 /\ far THEN <<1000, "below_lower">>
               ELSE IF X > 0 THEN <<500, "above_middle">>
               ELSE <<-500, "below_middle">>
        wide == IF b.s > 0 THEN 400 * b.k * b.k * b.V > b.s * b.s
                ELSE IF b.s = 0 THEN b.V > 0
                ELSE FALSE
        score == pos[1]
        signal == IF score > 500 THEN "bullish" ELSE IF score < -500 THEN "bearish" ELSE "neutral"
    IN  [signal |-> signal, score |-> score,
         details |-> <<pos[2], IF wide THEN "band_wide" ELSE "band_narrow">>]

\* _analyze_rsi_signal
analyze_rsi_signal(rsi) ==
    IF rsi = <<>> THEN [signal |-> "insufficient", score |-> 0]
    ELSE
    LET rsi_value == Last(rsi)
        sc == IF rsi_value > 70 * FP THEN <<-1000, "overbought">>
              ELSE IF rsi_value < 30 * FP THEN <<1000, "oversold">>
              ELSE IF rsi_value > 50 * FP THEN <<500, "strong">>
              ELSE <<-500, "weak">>
        score == sc[1]
        signal == IF score > 500 THEN "bullish" ELSE IF score < -500 THEN "bearish" ELSE "neutral"
    IN  [signal |-> signal, score |-> score, details |-> <<sc[2]>>, value |-> rsi_value]

\* _analyze_indicators: the five families in the code's order; an exception
\* of calculate_macd or _analyze_macd_signal ends the call
analyze_indicators(closes, highs, lows, volumes) ==
    LET current_price == Last(closes)
        ma_dict == calculate_ma(closes, MA_PERIODS)
        macd == calculate_macd(closes, MACD_FAST, MACD_SLOW, MACD_SIGNAL)
        macd_signal == analyze_macd_signal(macd)
        kdj == calculate_kdj(highs, lows, closes, KDJ_N, KDJ_M1, KDJ_M2)
        boll == calculate_boll(closes, BOLL_PERIOD, BOLL_STD_DEV)
        rsi == calculate_rsi(closes, RSI_PERIOD)
        atr == calculate_atr(highs, lows, closes, ATR_PERIOD)
    IN  IF macd.raised # None THEN [raised |-> macd.raised]
        ELSE IF macd_signal.raised # None THEN [raised |-> macd_signal.raised]
        ELSE [raised |-> None,
              MA |-> analyze_ma_signal(current_price, ma_dict),
              MACD |-> [f \in DOMAIN macd_signal \ {"raised"} |-> macd_signal[f]],
              KDJ |-> analyze_kdj_signal(kdj),
              BOLL |-> analyze_boll_signal(current_price, boll),
              RSI |-> analyze_rsi_signal(rsi),
              volatility |-> IF atr # <<>> THEN Last(atr) ELSE 0,
              ma_values |-> [k \in 1..Len(ma_dict) |->
                               [period |-> ma_dict[k].period, value |-> Last(ma_dict[k].values)]],
              macd_values |-> [DIF |-> LastOrNone(macd.DIF), DEA |-> LastOrNone(macd.DEA),
                               MACD |-> LastOrNone(macd.MACD)],
              kdj_values |-> [K |-> LastOrNone(kdj.K), D |-> LastOrNone(kdj.D), J |-> LastOrNone(kdj.J)],
              boll_values |-> LastOrNone(boll),
              rsi_value |-> LastOrNone(rsi)]

FIB_LOOKBACK == 20

\* _analyze_fibonacci: high and low of the last 20 candles, in ticks; levels
\* in 1/1000 tick
analyze_fibonacci(closes, highs, lows, current_price) ==
    LET high == MaxSeq(Slice(highs, Len(highs) - FIB_LOOKBACK + 1, Len(highs)))
        low == MinSeq(Slice(lows, Len(lows) - FIB_LOOKBACK + 1, Len(lows)))
        support_resistance == find_support_resistance(current_price, high, low)
    IN  [high |-> high, low |-> low,
         retracement_levels |-> calculate_retracement(high, low),
         support |-> support_resistance.support,
         resistance |-> support_resistance.resistance]

\* _analyze_elliott
analyze_elliott(closes) ==
    [pattern |-> identify_wave_pattern(closes), prediction |-> predict_next_move(closes)]

\* _analyze_chan
analyze_chan(highs, lows, closes) ==
    LET bi_list == identify_bi(highs, lows, closes)
    IN  [bi_count |-> Len(bi_list), trend |-> analyze_trend(bi_list)]

\* _analyze_wyckoff
analyze_wyckoff(closes, volumes) ==
    [phase |-> identify_phase(closes, volumes),
     supply_demand |-> analyze_supply_demand(closes, volumes)]

\* abs(x) if rising else -abs(x)
Signed(x, rising) == IF rising THEN Abs(x) ELSE -Abs(x)

\* max(lo, min(hi, x))
Clamp(x, lo, hi) == Max2(lo, Min2(hi, x))

\* a variant without the clamp
Normalize_unclamped(total_score) == total_score + 5 * 10^6

\* normalized_score = (total_score + 5) / 10 * 100, clamped to [0, 100]:
\* total_score in 1e-6, the result in 1e-5
Normalize(total_score) == Clamp(total_score + 5 * 10^6, 0, 100 * 10^5)

\* _calculate_score on the five family scores and the three theory results.
\* indicator_score is in 1e-5 (thousandths times weights in hundredths),
\* total_score in 1e-6; the returned values are round(x, 2) in hundredths,
\* but for indicator_score, which is returned unrounded in 1e-5: it falls on
\* decimal ties (x.xx5), which the binary double decides either way.
calculate_score(indicators, fib, elliott, chan, wyckoff) ==
    LET indicator_score == indicators.MA.score * 25 + indicators.MACD.score * 25
                           + indicators.KDJ.score * 20 + indicators.BOLL.score * 15
                           + indicators.RSI.score * 15
        elliott_score == Signed(elliott.prediction.confidence * 2 - 1000,
                                PredictionHasRising(elliott.prediction.prediction))
        chan_score == Signed(chan.trend.strength * 2 - 1000, TrendHasRising(chan.trend.trend))
        wyckoff_score == Signed(wyckoff.supply_demand.strength * 2 - 1000,
                                wyckoff.supply_demand.trend = "rising")
        total_score == indicator_score * 4 + elliott_score * 200 + chan_score * 200
                       + wyckoff_score * 200
        normalized_score == Normalize(total_score)
    IN  [total |-> RoundHalfEven(normalized_score, 1000),
         indicator_score |-> indicator_score,
         elliott_score |-> RoundHalfEven(elliott_score, 10),
         chan_score |-> RoundHalfEven(chan_score, 10),
         wyckoff_score |-> RoundHalfEven(wyckoff_score, 10)]

\* a variant whose bands take their lower thresholds in
Decide_inclusive(total_score) ==
    IF total_score >= 6500 THEN <<"long", "high">>
    ELSE IF total_score >= 5500 THEN <<"long", "medium">>
    ELSE IF total_score < 3500 THEN <<"short", "high">>
    ELSE IF total_score < 4500 THEN <<"short", "medium">>
    ELSE <<"flat", "no_trade">>

\* the direction and confidence of _generate_recommendations, total in
\* hundredths.  direction: "long" (zuo duo), "short" (zuo kong), "flat" (guan
\* wang); confidence: "high", "medium", "no_trade"
Decide(total_score) ==
    IF total_score > 6500 THEN <<"long", "high">>
    ELSE IF total_score > 5500 THEN <<"long", "medium">>
    ELSE IF total_score < 3500 THEN <<"short", "high">>
    ELSE IF total_score < 4500 THEN <<"short", "medium">>
    ELSE <<"flat", "no_trade">>

\* Ladder prices before rounding are in 1/7000 tick: price is 7000 * ticks,
\* ATR (kept as 14 * ATR) is 500 per unit, a Fibonacci level (1/1000 tick) 7
LU == ATR_PERIOD * (FIB_UNIT \div 2)
AtrLU(atr) == atr * (LU \div ATR_PERIOD)
FibLU(level) == level * (LU \div FIB_UNIT)

\* round(x, 2) of a ladder price: hundredths of a price unit
Round2(x, den) == RoundHalfEven(x * 100, LU * den)

TIMEFRAMES == <<"15min", "1h", "4h", "24h">>

\* fib["support"][0] if fib["support"] else price * 0.95
SupportOf(price, fib) ==
    IF fib.support # <<>> THEN FibLU(fib.support[1]) ELSE (price * LU * 95) \div 100

\* fib["resistance"][0] if fib["resistance"] else price * 1.05
ResistanceOf(price, fib) ==
    IF fib.resistance # <<>> THEN FibLU(fib.resistance[1]) ELSE (price * LU * 105) \div 100

\* _calculate_stop_loss_long
calculate_stop_loss_long(price, atr, fib, den) ==
    LET support == SupportOf(price, fib)
    IN  [tf \in {"15min", "1h", "4h", "24h"} |->
          CASE tf = "15min" -> Some(Round2(price * LU - AtrLU(atr) * 1, den))
            [] tf = "1h" -> Some(Round2(Max2(price * LU - AtrLU(atr) * 2, support), den))
            [] tf = "4h" -> Some(Round2(Max2(price * LU - AtrLU(atr) * 3, support), den))
            [] tf = "24h" -> Some(Round2(Max2(price * LU - AtrLU(atr) * 5, fib.low * LU), den))]

\* _calculate_take_profit_long (atr * 1.5 is AtrLU * 3 / 2, an integer)
calculate_take_profit_long(price, atr, fib, den) ==
    LET resistance == ResistanceOf(price, fib)
    IN  [tf \in {"15min", "1h", "4h", "24h"} |->
          CASE tf = "15min" -> Some(Round2(price * LU + (AtrLU(atr) * 3) \div 2, den))
            [] tf = "1h" -> Some(Round2(Min2(price * LU + AtrLU(atr) * 3, resistance), den))
            [] tf = "4h" -> Some(Round2(Min2(price * LU + AtrLU(atr) * 5, resistance), den))
            [] tf = "24h" -> Some(Round2(Min2(price * LU + AtrLU(atr) * 8, fib.high * LU), den))]

\* _calculate_stop_loss_short
calculate_stop_loss_short(price, atr, fib, den) ==
    LET resistance == ResistanceOf(price, fib)
    IN  [tf \in {"15min", "1h", "4h", "24h"} |->
          CASE tf = "15min" -> Some(Round2(price * LU + AtrLU(atr) * 1, den))
            [] tf = "1h" -> Some(Round2(Min2(price * LU + AtrLU(atr) * 2, resistance), den))
            [] tf = "4h" -> Some(Round2(Min2(price * LU + AtrLU(atr) * 3, resistance), den))
            [] tf = "24h" -> Some(Round2(Min2(price * LU + AtrLU(atr) * 5, fib.high * LU), den))]

\* _calculate_take_profit_short
calculate_take_profit_short(price, atr, fib, den) ==
    LET support == SupportOf(price, fib)
    IN  [tf \in {"15min", "1h", "4h", "24h"} |->
          CASE tf = "15min" -> Some(Round2(price * LU - (AtrLU(atr) * 3) \div 2, den))
            [] tf = "1h" -> Some(Round2(Max2(price * LU - AtrLU(atr) * 3, support), den))
            [] tf = "4h" -> Some(Round2(Max2(price * LU - AtrLU(atr) * 5, support), den))
            [] tf = "24h" -> Some(Round2(Max2(price * LU - AtrLU(atr) * 8, fib.low * LU), den))]

\* a variant of predict_timeframes whose 24h label trends from the thresholds
\* of the direction on
predict_timeframes_24h_early(score, direction) ==
    IF direction = "long"
    THEN [tf \in {"15min", "1h", "4h", "24h"} |->
           CASE tf = "15min" -> IF score > 5500 THEN "up" ELSE "chop"
             [] tf = "1h" -> IF score > 6000 THEN "up" ELSE "chop"
             [] tf = "4h" -> IF score > 6500 THEN "up" ELSE "chop_up"
             [] tf = "24h" -> IF score > 5500 THEN "up" ELSE "chop"]
    ELSE IF direction = "short"
    THEN [tf \in {"15min", "1h", "4h", "24h"} |->
           CASE tf = "15min" -> IF score < 4500 THEN "down" ELSE "chop"
             [] tf = "1h" -> IF score < 4000 THEN "down" ELSE "chop"
             [] tf = "4h" -> IF score < 3500 THEN "down" ELSE "chop_down"
             [] tf = "24h" -> IF score < 4500 THEN "down" ELSE "chop"]
    ELSE [tf \in {"15min", "1h", "4h", "24h"} |-> "chop"]

\* _predict_timeframes, score in hundredths.  "up" (shang zhang), "down" (xia
\* die), "chop" (zhen dang), "chop_up", "chop_down"
predict_timeframes(score, direction) ==
    IF direction = "long"
    THEN [tf \in {"15min", "1h", "4h", "24h"} |->
           CASE tf = "15min" -> IF score > 5500 THEN "up" ELSE "chop"
             [] tf = "1h" -> IF score > 6000 THEN "up" ELSE "chop"
             [] tf = "4h" -> IF score > 6500 THEN "up" ELSE "chop_up"
             [] tf = "24h" -> IF score > 7000 THEN "up" ELSE "chop"]
    ELSE IF direction = "short"
    THEN [tf \in {"15min", "1h", "4h", "24h"} |->
           CASE tf = "15min" -> IF score < 4500 THEN "down" ELSE "chop"
             [] tf = "1h" -> IF score < 4000 THEN "down" ELSE "chop"
             [] tf = "4h" -> IF score < 3500 THEN "down" ELSE "chop_down"
             [] tf = "24h" -> IF score < 3000 THEN "down" ELSE "chop"]
    ELSE [tf \in {"15min", "1h", "4h", "24h"} |-> "chop"]

\* a Python float is falsy when it is 0.0, None is falsy
Truthy(x) == x # None /\ x[1] # 0

\* a variant that reports no ratio when the risk is zero
calculate_risk_reward_null_on_zero_risk(price, stop_loss, take_profit, den) ==
    [tf \in {"15min", "1h", "4h", "24h"} |->
       LET sl == stop_loss[tf]
           tp == take_profit[tf]
       IN  IF Truthy(sl) /\ Truthy(tp)
           THEN LET risk == Abs(100 * price - sl[1] * den)
                    reward == Abs(tp[1] * den - 100 * price)
                IN  IF risk > 0 THEN Some(RoundHalfEven(reward * 100, risk)) ELSE None
           ELSE None]

\* _calculate_risk_reward: price in ticks, sl and tp in hundredths or None.
\* In 1 / (100 * den) price units the price is 100 * price and a leg s is
\* s * den; the ratio is round(reward / risk, 2), in hundredths.  A quotient
\* on a decimal tie (x.xx5) goes to the even hundredth here; the code rounds
\* the double nearest to the quotient, which lies on either side of the tie.
calculate_risk_reward(price, stop_loss, take_profit, den) ==
    [tf \in {"15min", "1h", "4h", "24h"} |->
       LET sl == stop_loss[tf]
           tp == take_profit[tf]
       IN  IF Truthy(sl) /\ Truthy(tp)
           THEN LET risk == Abs(100 * price - sl[1] * den)
                    reward == Abs(tp[1] * den - 100 * price)
                IN  IF risk > 0 THEN Some(RoundHalfEven(reward * 100, risk)) ELSE Some(0)
           ELSE None]

AllNone == [tf \in {"15min", "1h", "4h", "24h"} |-> None]

\* _generate_recommendations
generate_recommendations(current_price, score, indicators, fib, den) ==
    LET total_score == score.total
        dc == Decide(total_score)
        direction == dc[1]
        atr == indicators.volatility
        stop_loss == IF direction = "long" THEN calculate_stop_loss_long(current_price, atr, fib, den)
                     ELSE IF direction = "short" THEN calculate_stop_loss_short(current_price, atr, fib, den)
                     ELSE AllNone
        take_profit == IF direction = "long" THEN calculate_take_profit_long(current_price, atr, fib, den)
                       ELSE IF direction = "short" THEN calculate_take_profit_short(current_price, atr, fib, den)
                       ELSE AllNone
    IN  [direction |-> direction, confidence |-> dc[2], score |-> total_score,
         stop_loss |-> stop_loss, take_profit |-> take_profit,
         predictions |-> predict_timeframes(total_score, direction),
         risk_reward_ratio |-> calculate_risk_reward(current_price, stop_loss, take_profit, den)]

Column(ks, f) == ListOf([i \in 1..Len(ks.candles) |-> ks.candles[i][f]], Len(ks.candles))

\* a variant that refuses the empty window only
insufficient_klines_empty_only(ks) == ks.candles = <<>>

\* if not klines or len(klines) < 30
insufficient_klines(ks) == ks.candles = <<>> \/ Len(ks.candles) < MIN_KLINES

\* The element of a one-element set.  Binding a value as x \in {e} computes
\* e once, however often x is used; this is how the local variables of
\* analyze_comprehensive are held.
The(S) == CHOOSE x \in S : TRUE

\* analyze_comprehensive.  kind "error" is the {"error": ...} dict, "raised"
\* an exception leaving the call (from _analyze_indicators, or else from
\* _analyze_wyckoff), "ok" the full result.
analyze_comprehensive(ks) ==
    IF insufficient_klines(ks) THEN [kind |-> "error", error |-> "insufficient_klines"]
    ELSE The({
      The({
        IF indicators_analysis.raised # None
        THEN [kind |-> "raised", exception |-> indicators_analysis.raised[1]]
        ELSE IF wyckoff_analysis.phase.raised # None
        THEN [kind |-> "raised", exception |-> wyckoff_analysis.phase.raised[1]]
        ELSE The({
          The({[kind |-> "ok",
                current_price |-> Last(closes),
                indicators |-> [f \in DOMAIN indicators_analysis \ {"raised"} |->
                                  indicators_analysis[f]],
                fibonacci |-> fib_analysis,
                elliott_wave |-> elliott_analysis,
                chan_theory |-> chan_analysis,
                wyckoff |-> [phase |-> [f \in DOMAIN wyckoff_analysis.phase \ {"raised"} |->
                                          wyckoff_analysis.phase[f]],
                             supply_demand |-> wyckoff_analysis.supply_demand],
                score |-> score,
                recommendations |-> recommendations] :
               recommendations \in {generate_recommendations(Last(closes), score,
                                        indicators_analysis, fib_analysis, ks.den)}}) :
          score \in {calculate_score(indicators_analysis, fib_analysis, elliott_analysis,
                                     chan_analysis, wyckoff_analysis)}}) :
        indicators_analysis \in {analyze_indicators(closes, highs, lows, volumes)},
        fib_analysis \in {analyze_fibonacci(closes, highs, lows, Last(closes))},
        elliott_analysis \in {analyze_elliott(closes)},
        chan_analysis \in {analyze_chan(highs, lows, closes)},
        wyckoff_analysis \in {analyze_wyckoff(closes, volumes)}}) :
      closes \in {Column(ks, "close")}, highs \in {Column(ks, "high")},
      lows \in {Column(ks, "low")}, volumes \in {Column(ks, "volume")}})

-----------------------------------------------------------------------------
(* The candle windows the analysis is run on.  A window has n candles; the  *)
(* close starts at `base` ticks and moves by a and b ticks alternately, the *)
(* high and low lie w ticks above and below the close, and the volume       *)
(* follows one of four shapes.                                               *)

MaxLen == 35

\* the empty window, the lengths around MIN_KLINES, and the 40 candles of a
\* typical request
Lengths == {0, 40} \cup ((MIN_KLINES - 2)..MaxLen)
\* ticks per price unit: whole-number prices, and sub-cent prices on a binary
\* grid, which a double holds exactly, so that the code's float arithmetic on
\* these windows is the exact arithmetic used here
Dens == {1, 2^17}
Steps == {-2, -1, 0, 1, 2}
Wicks == {0, 1}
VolShapes == {"flat", "step", "ramp", "fade"}
BasePrice == 96
BaseVolume == 10

CloseAt(base, a, b, i) == base + a * (i \div 2) + b * ((i - 1) \div 2)

VolumeAt(shape, n, i) ==
    CASE shape = "flat" -> BaseVolume
      [] shape = "step" -> IF i <= n \div 2 THEN BaseVolume ELSE 2 * BaseVolume
      [] shape = "ramp" -> BaseVolume + i
      [] shape = "fade" -> BaseVolume + n - i

Window(n, den, base, a, b, w, shape) ==
    [den |-> den,
     candles |-> ListOf([i \in 1..n |-> [close |-> CloseAt(base, a, b, i),
                                         high |-> CloseAt(base, a, b, i) + w,
                                         low |-> CloseAt(base, a, b, i) - w,
                                         volume |-> VolumeAt(shape, n, i)]], n)]

\* positive prices, low <= close <= high
WellFormed(ks) ==
    \A i \in 1..Len(ks.candles) :
        LET c == ks.candles[i]
        IN  c.low > 0 /\ c.low <= c.close /\ c.close <= c.high /\ c.volume >= 0

Windows ==
    {ks \in {Window(n, den, BasePrice, a, b, w, shape) :
                n \in Lengths, den \in Dens, a \in Steps, b \in Steps, w \in Wicks,
                shape \in VolShapes} : WellFormed(ks)}

NoWindow == [den |-> 1, candles |-> <<>>]
NoResult == [kind |-> "none"]

-----------------------------------------------------------------------------
(* BinanceKlineData.  What the exchange does with the request for one      *)
(* instrument: "request_error" (session.get or raise_for_status raises a   *)
(* RequestException), "malformed" (the body is not the list of rows that   *)
(* json(), float() and the indexing expect), or a list of rows: none, one  *)
(* row fewer than the analysis needs, just as many, or more.               *)

Responses == {"request_error", "malformed", "no_candles", "short", "minimal", "full"}
Failures == {"request_error", "malformed"}

\* formatted_klines of a well-formed response
ResponseWindow(resp) ==
    CASE resp = "no_candles" -> NoWindow
      [] resp = "short" -> Window(MIN_KLINES - 1, 1, BasePrice, 2, 1, 1, "step")
      [] resp = "minimal" -> Window(MIN_KLINES, 1, BasePrice, 2, 1, 1, "step")
      [] resp = "full" -> Window(MaxLen, 1, BasePrice, 2, 1, 1, "step")

\* a variant of get_klines that handles the request error only
get_klines_request_errors_only(resp) ==
    IF resp = "request_error" THEN [raised |-> None, klines |-> NoWindow]
    ELSE IF resp = "malformed" THEN [raised |-> Some("Exception"), klines |-> NoWindow]
    ELSE [raised |-> None, klines |-> ResponseWindow(resp)]

\* get_klines: the whole body is inside try; both handlers return []
get_klines(resp) ==
    IF resp = "request_error" THEN [raised |-> None, klines |-> NoWindow]
    ELSE IF resp = "malformed" THEN [raised |-> None, klines |-> NoWindow]
    ELSE [raised |-> None, klines |-> ResponseWindow(resp)]

\* get_klines_for_multiple_symbols: the dict as a sequence of [symbol, klines]
\* in insertion order; an exception of get_klines would leave the loop
get_klines_for_multiple_symbols(symbols, responses) ==
    LET RECURSIVE go(_, _)
        go(k, res) ==
            IF k > Len(symbols) THEN [raised |-> None, result |-> res]
            ELSE LET r == get_klines(responses[k])
                 IN  IF r.raised # None THEN [raised |-> r.raised, result |-> <<>>]
                     ELSE IF r.klines.candles # <<>>
                     THEN go(k + 1, Append(res, [symbol |-> symbols[k], klines |-> r.klines]))
                     ELSE go(k + 1, res)
    IN  go(1, <<>>)

\* the background threads and the WebSocketApp objects one client makes:
\* the n-th connect makes thread n and application n
MaxThreads == 3
ThreadIds == 1..MaxThreads

\* BinanceWebSocket.__init__: no application (ws 0 stands for None), not
\* running.  closed holds the applications whose close() was called since
\* their run_forever began; pc[t] is where thread t stands in _run_websocket
\* ("unstarted", "test" at the while condition, "run_forever", "finished")
\* and app[t] the application whose run_forever it is in; reconnected tells
\* that connect was called on a client that was running.
BinanceWebSocket ==
    [running |-> FALSE, ws |-> 0, closed |-> {},
     pc |-> [t \in ThreadIds |-> "unstarted"], app |-> [t \in ThreadIds |-> 0],
     reconnected |-> FALSE]

\* the threads that connect has started
Started(client) == {t \in ThreadIds : client.pc[t] # "unstarted"}

\* the threads that are executing _run_websocket
InRunWebsocket(client) == {t \in ThreadIds : client.pc[t] \in {"test", "run_forever"}}

\* BinanceWebSocket.connect: running = True, a new WebSocketApp, a new
\* thread started at _run_websocket
connect(client) ==
    LET n == Cardinality(Started(client)) + 1
    IN  [client EXCEPT !.running = TRUE, !.ws = n, !.pc[n] = "test",
                       !.reconnected = @ \/ client.running]

\* BinanceWebSocket.pause, and close, which has the same statements:
\* running = False, and self.ws.close() if there is an application
pause(client) ==
    [client EXCEPT !.running = FALSE,
                   !.closed = IF client.ws # 0 THEN @ \cup {client.ws} ELSE @]

\* BinanceWebSocket.resume: connect if not running, else nothing
resume(client) == IF ~client.running THEN connect(client) ELSE client

\* perform_technical_analysis before it is called
NoBatch == [pc |-> "idle", pending |-> <<>>, log |-> <<>>]

-----------------------------------------------------------------------------
(* TradingAdvisor instances.  __init__ stores five helper objects that     *)
(* have no attributes of their own; no method assigns to self afterwards.  *)

AdvisorIds == {1, 2}

\* TradingAdvisor.__init__: the attributes of a new instance
TradingAdvisor ==
    [indicators |-> "TechnicalIndicators", fibonacci |-> "FibonacciAnalysis",
     elliott |-> "ElliottWaveAnalysis", chan |-> "ChanTheoryAnalysis",
     wyckoff |-> "WyckoffAnalysis"]

\* a call memoised on the instance: the first result is kept and returned
\* by every later call
advisor_analyze_memo(self, ks) ==
    IF "memo" \in DOMAIN self
    THEN [self |-> self, result |-> self.memo]
    ELSE [self |-> [f \in DOMAIN self \cup {"memo"} |->
                       IF f = "memo" THEN analyze_comprehensive(ks) ELSE self[f]],
          result |-> analyze_comprehensive(ks)]

\* the bound method advisor.analyze_comprehensive(klines): the instance
\* after the call and the value returned
advisor_analyze(self, ks) == [self |-> self, result |-> analyze_comprehensive(ks)]

-----------------------------------------------------------------------------
(* A client of the advisor, as perform_technical_analysis is: a window is *)
(* fetched, analysed by the advisor, and dropped.  That client skips short *)
(* windows itself; the advisor makes its own check, so here every window   *)
(* is handed on.                                                           *)

Init ==
    /\ klines = NoWindow
    /\ result = NoResult
    /\ advisors = [a \in AdvisorIds |-> TradingAdvisor]
    /\ calls = <<>>
    /\ args = None
    /\ ret = None
    /\ batch = NoBatch
    /\ ws_client = BinanceWebSocket

\* the data collaborator hands over a window
Fetch ==
    /\ klines = NoWindow
    /\ result = NoResult
    /\ \E ks \in Windows : klines' = ks
    /\ UNCHANGED <<result, advisors, calls, args, ret, batch, ws_client>>

\* analysis = advisor.analyze_comprehensive(klines)
Analyze ==
    /\ result = NoResult
    /\ LET r == advisor_analyze(advisors[1], klines)
       IN  /\ result' = r.result
           /\ advisors' = [advisors EXCEPT ![1] = r.self]
    /\ UNCHANGED <<klines, calls, args, ret, batch, ws_client>>

\* the result is displayed and the window dropped
Drop ==
    /\ result # NoResult
    /\ klines' = NoWindow
    /\ result' = NoResult
    /\ UNCHANGED <<advisors, calls, args, ret, batch, ws_client>>

Next == Fetch \/ Analyze \/ Drop

Spec == Init /\ [][Next]_vars

-----------------------------------------------------------------------------
(* _calculate_score and _generate_recommendations on their own: the family *)
(* scores range over values of any magnitude, the theory results over the  *)
(* values their analysers return.                                          *)

MaxScore == 60

\* thousandths; 5 and 15 put the total on the thresholds 55, 65, 45, 35
MaScores == {-MaxScore * 1000, -15000, -5000, 0, 5000, 15000, MaxScore * 1000}
MacdScores == {-3500, 0, 500}
KdjScores == {-1500, 0, 3000}
BollScores == {-1000, 500}
RsiScores == {-500, 1000}
ElliottResults ==
    {[prediction |-> "continue_up", confidence |-> 700],
     [prediction |-> "maybe_rebound", confidence |-> 600],
     [prediction |-> "sideways_wait", confidence |-> 500]}
ChanResults ==
    {[trend |-> "insufficient", strength |-> 0], [trend |-> "strong_up", strength |-> 800],
     [trend |-> "strong_down", strength |-> 800], [trend |-> "oscillating", strength |-> 500]}
WyckoffResults ==
    {[balance |-> "demand_gt_supply", strength |-> 700, trend |-> "rising"],
     [balance |-> "supply_gt_demand", strength |-> 700, trend |-> "falling"],
     [balance |-> "demand_weakening", strength |-> 400, trend |-> "rising"],
     [balance |-> "balanced", strength |-> 500, trend |-> "falling"]}

\* the price situations of _generate_recommendations: whole-number prices at
\* the low, inside and at the high of the 20-candle range, ATR 0, 2 and 5
RecRange == [high |-> 110, low |-> 90]
RecPrices == {RecRange.low, 100, RecRange.high}
RecAtrs == {0, 2 * ATR_PERIOD, 5 * ATR_PERIOD}

RecFib(price) ==
    LET sr == find_support_resistance(price, RecRange.high, RecRange.low)
    IN  [high |-> RecRange.high, low |-> RecRange.low,
         retracement_levels |-> calculate_retracement(RecRange.high, RecRange.low),
         support |-> sr.support, resistance |-> sr.resistance]

InitScore == Init

\* score = self._calculate_score(indicators, fib, elliott, chan, wyckoff)
ScoreCall ==
    /\ args = None
    /\ \E ma \in MaScores, macd \in MacdScores, kdj \in KdjScores, boll \in BollScores,
          rsi \in RsiScores, e \in ElliottResults, c \in ChanResults, w \in WyckoffResults :
          LET indicators == [MA |-> [score |-> ma], MACD |-> [score |-> macd],
                             KDJ |-> [score |-> kdj], BOLL |-> [score |-> boll],
                             RSI |-> [score |-> rsi]]
              elliott == [prediction |-> e]
              chan == [trend |-> c]
              wyckoff == [supply_demand |-> w]
          IN  /\ args' = Some([op |-> "calculate_score", indicators |-> indicators,
                               elliott |-> elliott, chan |-> chan, wyckoff |-> wyckoff])
              /\ ret' = Some(calculate_score(indicators, RecFib(100), elliott, chan, wyckoff))
    /\ UNCHANGED <<klines, result, advisors, calls, batch, ws_client>>

\* recommendations = self._generate_recommendations(price, score, indicators, fib)
RecommendCall ==
    /\ args # None
    /\ args[1].op = "calculate_score"
    /\ \E price \in RecPrices, atr \in RecAtrs :
          /\ args' = Some([op |-> "generate_recommendations", current_price |-> price,
                           score |-> ret[1], atr |-> atr])
          /\ ret' = Some(generate_recommendations(price, ret[1], [volatility |-> atr],
                                                  RecFib(price), 1))
    /\ UNCHANGED <<klines, result, advisors, calls, batch, ws_client>>

NextScore == ScoreCall \/ RecommendCall

SpecScore == InitScore /\ [][NextScore]_vars

-----------------------------------------------------------------------------
(* identify_bi on every close series up to MaxBiLen over three prices.     *)

MaxBiLen == 7
BiPrices == {1, 2, 3}
CloseSeries == UNION {[1..n -> BiPrices] : n \in 0..MaxBiLen}

InitBi == Init

\* bi_list = ChanTheoryAnalysis.identify_bi(high, low, close)
BiCall ==
    /\ args = None
    /\ \E close \in CloseSeries :
          /\ args' = Some([op |-> "identify_bi", close |-> close])
          /\ ret' = Some(identify_bi(close, close, close))
    /\ UNCHANGED <<klines, result, advisors, calls, batch, ws_client>>

\* chan_analysis = self._analyze_chan(highs, lows, closes) and the chan_score
\* that _calculate_score makes of it (the other inputs neutral)
ChanCall ==
    /\ args = None
    /\ \E close \in CloseSeries :
          LET chan == analyze_chan(close, close, close)
              neutral == [score |-> 0]
              score == calculate_score([MA |-> neutral, MACD |-> neutral, KDJ |-> neutral,
                                        BOLL |-> neutral, RSI |-> neutral], <<>>,
                                       [prediction |-> [prediction |-> "sideways_wait",
                                                        confidence |-> 500]],
                                       chan,
                                       [supply_demand |-> [balance |-> "balanced",
                                                           strength |-> 500, trend |-> "falling"]])
          IN  /\ args' = Some([op |-> "analyze_chan", close |-> close,
                               bi_list |-> identify_bi(close, close, close)])
              /\ ret' = Some([bi_count |-> chan.bi_count, trend |-> chan.trend,
                              chan_score |-> score.chan_score])
    /\ UNCHANGED <<klines, result, advisors, calls, batch, ws_client>>

\* the close series of WaveLengths candles over the three prices
MaxWaveLen == 8
WaveLengths == (MaxWaveLen - 1)..MaxWaveLen
WaveSeries == UNION {[1..n -> BiPrices] : n \in WaveLengths}

\* elliott_analysis = self._analyze_elliott(closes) and the elliott_score
\* that _calculate_score makes of it (the other inputs neutral)
ElliottCall ==
    /\ args = None
    /\ \E closes \in WaveSeries :
          LET elliott == analyze_elliott(closes)
              neutral == [score |-> 0]
              score == calculate_score([MA |-> neutral, MACD |-> neutral, KDJ |-> neutral,
                                        BOLL |-> neutral, RSI |-> neutral], <<>>,
                                       elliott,
                                       [trend |-> [trend |-> "oscillating", strength |-> 500]],
                                       [supply_demand |-> [balance |-> "balanced",
                                                           strength |-> 500, trend |-> "falling"]])
          IN  /\ args' = Some([op |-> "analyze_elliott", closes |-> closes])
              /\ ret' = Some([pattern |-> elliott.pattern, prediction |-> elliott.prediction,
                              elliott_score |-> score.elliott_score])
    /\ UNCHANGED <<klines, result, advisors, calls, batch, ws_client>>

NextBi == BiCall \/ ChanCall \/ ElliottCall

SpecBi == InitBi /\ [][NextBi]_vars

-----------------------------------------------------------------------------
(* Two advisor instances analysing windows in any order; every call is     *)
(* recorded with its instance, its window and its result.                  *)

MaxCalls == 3

DetWindows ==
    {Window(n, 1, BasePrice, a, 1, 1, "step") : n \in {MIN_KLINES - 1, MaxLen}, a \in {-2, 2}}

InitDet == Init

\* advisors[a].analyze_comprehensive(ks)
DetCall(a) ==
    /\ Len(calls) < MaxCalls
    /\ \E ks \in DetWindows :
          LET r == advisor_analyze(advisors[a], ks)
          IN  /\ calls' = Append(calls, [advisor |-> a, klines |-> ks, result |-> r.result])
              /\ advisors' = [advisors EXCEPT ![a] = r.self]
    /\ UNCHANGED <<klines, result, args, ret, batch, ws_client>>

NextDet == \E a \in AdvisorIds : DetCall(a)

SpecDet == InitDet /\ [][NextDet]_vars

-----------------------------------------------------------------------------
(* Properties of the analysis of a fetched window (Spec).                  *)

Analysed == result # NoResult
Rec == result.recommendations
Horizons == {"15min", "1h", "4h", "24h"}

\* in 1 / (100 * den) price units: the current price, and a ladder leg
PriceC == 100 * result.current_price
LegC(leg) == leg[1] * klines.den

\* C1 (as stated): every well-formed window of at least 30 candles, for each
\* length 30, 31, 32, ..., is analysed to completion: the call returns a
\* result carrying a score and a recommendation, and raises nothing.
C1_CompletesFromThirty ==
    (Analysed /\ Len(klines.candles) >= MIN_KLINES /\ WellFormed(klines))
        => /\ result.kind = "ok"
           /\ {"score", "recommendations"} \subseteq DOMAIN result

\* C2: a window of fewer than 30 candles, the empty one included, is
\* answered by the insufficient-data result, which carries the error marker
\* and nothing else (no score, no direction, no ladder); nothing is raised.
C2_ShortWindowIsRefused ==
    (Analysed /\ Len(klines.candles) < MIN_KLINES)
        => result = [kind |-> "error", error |-> "insufficient_klines"]

\* the empty window has been analysed, and so has one of 29 candles
C2_EmptyWindowRefused == Analysed /\ klines.candles = <<>> /\ result.kind = "error"

\* C5 (as stated): the risk/reward ratio is null at every horizon exactly
\* when the direction is flat.
C5_AllNullIffFlat ==
    (Analysed /\ result.kind = "ok")
        => ((\A h \in Horizons : Rec.risk_reward_ratio[h] = None) <=> Rec.direction = "flat")

\* C6 (as stated, for whole-number prices): a long recommendation has every
\* stop below and every target above the current price, a short one every
\* target below and every stop above it.
C6_LadderBracketsPrice ==
    (Analysed /\ result.kind = "ok" /\ klines.den = 1)
        => \A h \in Horizons :
              /\ Rec.direction = "long" =>
                    LegC(Rec.stop_loss[h]) < PriceC /\ PriceC < LegC(Rec.take_profit[h])
              /\ Rec.direction = "short" =>
                    LegC(Rec.take_profit[h]) < PriceC /\ PriceC < LegC(Rec.stop_loss[h])

\* the ratio rr (hundredths) is reward / risk to within half a hundredth
IsRatio(rr, reward, risk) == 2 * Abs(reward * 100 - rr * risk) <= risk

RiskAt(h) == Abs(PriceC - LegC(Rec.stop_loss[h]))
RewardAt(h) == Abs(LegC(Rec.take_profit[h]) - PriceC)

ScenarioA(ks) ==
    /\ Len(ks.candles) = 40
    /\ \A i \in 1..39 : ks.candles[i + 1].close > ks.candles[i].close
    /\ \A i \in 21..39 : ks.candles[i + 1].volume > ks.candles[i].volume

\* C10 (as stated): on Scenario A the analysis gives Wyckoff phase Markup,
\* Chan trend strong uptrend, a total above 65 and the direction long.
C10_ScenarioA ==
    (Analysed /\ ScenarioA(klines))
        => /\ result.kind = "ok"
           /\ result.wyckoff.phase.phase = "markup"
           /\ result.chan_theory.trend.trend = "strong_up"
           /\ result.score.total > 6500
           /\ Rec.direction = "long"

-----------------------------------------------------------------------------
(* Properties of _calculate_score and _generate_recommendations            *)
(* (SpecScore).                                                            *)

Called(op) == args # None /\ args[1].op = op

\* C3: the total returned by _calculate_score is
\* clamp(((total_raw + 5) / 10) * 100, 0, 100) with total_raw = 0.4 *
\* indicator_score + 0.2 * (elliott_score + chan_score + wyckoff_score), the
\* indicator score being the 25/25/20/15/15 weighting of the family scores;
\* so the total lies in [0, 100] whatever the magnitude of the scores.
C3_TotalIsClampedAffine ==
    Called("calculate_score")
        => LET a == args[1].indicators
               r == ret[1]
               ind == 25 * a.MA.score + 25 * a.MACD.score + 20 * a.KDJ.score
                      + 15 * a.BOLL.score + 15 * a.RSI.score
               raw == 4 * ind + 2000 * (r.elliott_score + r.chan_score + r.wyckoff_score)
           IN  /\ r.indicator_score = ind
               /\ r.total * 1000 = Clamp(raw + 5 * 10^6, 0, 10^7)
               /\ r.total >= 0 /\ r.total <= 10000

\* a score whose affine image exceeds 100 was computed and came back as 100
C3_ClampedAtHundred ==
    /\ Called("calculate_score")
    /\ ret[1].total = 10000
    /\ 4 * ret[1].indicator_score
         + 2000 * (ret[1].elliott_score + ret[1].chan_score + ret[1].wyckoff_score) > 5 * 10^6

\* C4: direction and confidence are a function of the total alone: above 65
\* long/high, in (55, 65] long/medium, below 35 short/high, in [35, 45)
\* short/medium, in [45, 55] flat/no-trade; the five cases cover every
\* total and no two of them overlap.
C4_DirectionByTotal ==
    Called("generate_recommendations")
        => LET t == args[1].score.total
               dc == <<ret[1].direction, ret[1].confidence>>
               cases == {<<t > 6500, <<"long", "high">> >>,
                         <<t > 5500 /\ t <= 6500, <<"long", "medium">> >>,
                         <<t < 3500, <<"short", "high">> >>,
                         <<t >= 3500 /\ t < 4500, <<"short", "medium">> >>,
                         <<t >= 4500 /\ t <= 5500, <<"flat", "no_trade">> >>}
           IN  /\ \A c \in cases : c[1] => dc = c[2]
               /\ Cardinality({c \in cases : c[1]}) = 1

\* a recommendation was made on a total of exactly 55, and is flat
C4_FlatAtFiftyFive ==
    /\ Called("generate_recommendations")
    /\ args[1].score.total = 5500
    /\ ret[1].direction = "flat"

-----------------------------------------------------------------------------
(* Property of identify_bi (SpecBi).                                       *)

\* C9: identify_bi never emits two consecutive segments of the same
\* direction: in the list it returns, up and down segments alternate.
C9_SegmentsAlternate ==
    Called("identify_bi")
        => \A k \in 1..(Len(ret[1]) - 1) : ret[1][k].type # ret[1][k + 1].type

\* a series with at least three segments, ending an up and a down one
C9_ThreeSegments ==
    /\ Called("identify_bi")
    /\ Len(ret[1]) >= 3
    /\ \E k \in 1..Len(ret[1]) : ret[1][k].type = "up"
    /\ \E k \in 1..Len(ret[1]) : ret[1][k].type = "down"

-----------------------------------------------------------------------------
(* Property of repeated analyses (SpecDet).                                *)

-----------------------------------------------------------------------------
(* Further properties of the analysis of a fetched window (Spec).          *)

\* Scenario B of the specification: 40 candles with one and the same close,
\* high and low and one and the same non-zero volume
ScenarioB(ks) ==
    /\ Len(ks.candles) = 40
    /\ \A i \in 1..40 :
          /\ ks.candles[i] = ks.candles[1]
          /\ ks.candles[i].high = ks.candles[i].close
          /\ ks.candles[i].low = ks.candles[i].close
          /\ ks.candles[i].volume > 0

\* C11 (as stated, for whole-number prices): on Scenario B the analysis gives
\* RSI = 100, a MACD histogram of 0, a total within 5 of 50, and the
\* direction flat.
C11_ScenarioB ==
    (Analysed /\ ScenarioB(klines) /\ klines.den = 1)
        => /\ result.kind = "ok"
           /\ result.indicators.rsi_value = Some(100 * FP)
           /\ result.indicators.macd_values.MACD = Some(0)
           /\ Abs(result.score.total - 5000) <= 500
           /\ Rec.direction = "flat"

-----------------------------------------------------------------------------
(* Calls of the library functions of indicators.py and trading_theory.py   *)
(* and of the five evaluators of the advisor on short series and on long   *)
(* linear ones (SpecLib).  One call per behaviour: the functions are pure. *)

MaxLibLen == 6
LibPrices == {1, 2, 3}
LibSeries == UNION {[1..n -> LibPrices] : n \in 0..MaxLibLen}

\* period lists of calculate_ma whose periods divide MA_UNIT
LibPeriodLists == {<<1, 2>>, <<3, 5, 6>>, <<4>>, MA_PERIODS}

\* the parameters of the five library calls of _analyze_indicators: the
\* defaults of the code, and small ones that short series can satisfy
DefaultParams ==
    [periods |-> MA_PERIODS, fast |-> MACD_FAST, slow |-> MACD_SLOW, signal |-> MACD_SIGNAL,
     n |-> KDJ_N, m1 |-> KDJ_M1, m2 |-> KDJ_M2, boll |-> BOLL_PERIOD, std_dev |-> BOLL_STD_DEV,
     rsi |-> RSI_PERIOD, atr |-> ATR_PERIOD]

SmallParams ==
    [periods |-> <<1, 2>>, fast |-> 2, slow |-> 3, signal |-> 2,
     n |-> 2, m1 |-> KDJ_M1, m2 |-> KDJ_M2, boll |-> 2, std_dev |-> BOLL_STD_DEV,
     rsi |-> 2, atr |-> 2]

LibParams == {DefaultParams, SmallParams}

\* close series of MIN_KLINES candles and more, rising, falling and mixed
LongLengths == {MIN_KLINES, MIN_KLINES + 1, 40, 2 * MIN_KLINES}
LongSeries ==
    {s \in {ListOf([i \in 1..n |-> CloseAt(BasePrice, a, b, i)], n) :
               n \in LongLengths, a \in Steps, b \in Steps} : \A i \in 1..Len(s) : s[i] > 0}

InitLib == Init

\* TechnicalIndicators.calculate_ma(prices, periods)
MaCall ==
    /\ args = None
    /\ \E prices \in LibSeries, periods \in LibPeriodLists :
          /\ args' = Some([op |-> "calculate_ma", prices |-> prices, periods |-> periods])
          /\ ret' = Some(calculate_ma(prices, periods))
    /\ UNCHANGED <<klines, result, advisors, calls, batch, ws_client>>

\* TechnicalIndicators.calculate_ema(prices, period)
EmaCall ==
    /\ args = None
    /\ \E prices \in LibSeries, p \in LibParams :
          /\ args' = Some([op |-> "calculate_ema", prices |-> prices, period |-> p.fast])
          /\ ret' = Some(calculate_ema(ToFP(prices), p.fast))
    /\ UNCHANGED <<klines, result, advisors, calls, batch, ws_client>>

\* TechnicalIndicators.calculate_macd(prices, fast, slow, signal)
MacdCall ==
    /\ args = None
    /\ \E prices \in LibSeries \cup LongSeries, p \in LibParams :
          /\ Len(prices) >= MIN_KLINES => p = DefaultParams
          /\ args' = Some([op |-> "calculate_macd", prices |-> prices, fast |-> p.fast,
                           slow |-> p.slow, signal |-> p.signal])
          /\ ret' = Some(calculate_macd(prices, p.fast, p.slow, p.signal))
    /\ UNCHANGED <<klines, result, advisors, calls, batch, ws_client>>

\* TechnicalIndicators.calculate_kdj(high, low, close, n, m1, m2), the highs
\* and lows w above and below the closes
KdjCall ==
    /\ args = None
    /\ \E close \in LibSeries, w \in Wicks, p \in LibParams :
          LET high == [i \in DOMAIN close |-> close[i] + w]
              low == [i \in DOMAIN close |-> close[i] - w]
          IN  /\ args' = Some([op |-> "calculate_kdj", high |-> high, low |-> low,
                               close |-> close, n |-> p.n, m1 |-> p.m1])
              /\ ret' = Some(calculate_kdj(high, low, close, p.n, p.m1, p.m2))
    /\ UNCHANGED <<klines, result, advisors, calls, batch, ws_client>>

\* TechnicalIndicators.calculate_boll(prices, period, std_dev)
BollCall ==
    /\ args = None
    /\ \E prices \in LibSeries, p \in LibParams :
          /\ args' = Some([op |-> "calculate_boll", prices |-> prices, period |-> p.boll])
          /\ ret' = Some(calculate_boll(prices, p.boll, p.std_dev))
    /\ UNCHANGED <<klines, result, advisors, calls, batch, ws_client>>

\* TechnicalIndicators.calculate_rsi(prices, period)
RsiCall ==
    /\ args = None
    /\ \E prices \in LibSeries, p \in LibParams :
          /\ args' = Some([op |-> "calculate_rsi", prices |-> prices, period |-> p.rsi])
          /\ ret' = Some(calculate_rsi(prices, p.rsi))
    /\ UNCHANGED <<klines, result, advisors, calls, batch, ws_client>>

\* TechnicalIndicators.calculate_atr(high, low, close, period)
AtrCall ==
    /\ args = None
    /\ \E close \in LibSeries, w \in Wicks, p \in LibParams :
          LET high == [i \in DOMAIN close |-> close[i] + w]
              low == [i \in DOMAIN close |-> close[i] - w]
          IN  /\ args' = Some([op |-> "calculate_atr", close |-> close, period |-> p.atr])
              /\ ret' = Some(calculate_atr(high, low, close, p.atr))
    /\ UNCHANGED <<klines, result, advisors, calls, batch, ws_client>>

\* the five evaluators of _analyze_indicators, each on the series its library
\* function returns for the closes (high = low = close); the MACD evaluator is
\* not reached when calculate_macd raises
EvaluateCall ==
    /\ args = None
    /\ \E prices \in (LibSeries \ {<<>>}) \cup LongSeries, p \in LibParams :
          /\ Len(prices) >= MIN_KLINES => p = DefaultParams
          /\ LET current_price == Last(prices)
                 ma_dict == calculate_ma(prices, p.periods)
                 macd == calculate_macd(prices, p.fast, p.slow, p.signal)
                 kdj == calculate_kdj(prices, prices, prices, p.n, p.m1, p.m2)
                 boll == calculate_boll(prices, p.boll, p.std_dev)
                 rsi == calculate_rsi(prices, p.rsi)
             IN  /\ args' = Some([op |-> "evaluate", prices |-> prices, ma_dict |-> ma_dict,
                                  macd |-> macd, kdj |-> kdj, boll |-> boll, rsi |-> rsi])
                 /\ ret' = Some([MA |-> analyze_ma_signal(current_price, ma_dict),
                                 MACD |-> IF macd.raised # None THEN [raised |-> macd.raised]
                                          ELSE analyze_macd_signal(macd),
                                 KDJ |-> analyze_kdj_signal(kdj),
                                 BOLL |-> analyze_boll_signal(current_price, boll),
                                 RSI |-> analyze_rsi_signal(rsi)])
    /\ UNCHANGED <<klines, result, advisors, calls, batch, ws_client>>

\* price and volume lists of WyckoffAnalysis.identify_phase: linear prices from
\* 0 or from 20, volumes that are constant, absent, or present in one half only
PhaseLengths == {9, 10, 12}
PhasePrices ==
    {s \in {ListOf([i \in 1..n |-> base + a * (i - 1)], n) :
               n \in PhaseLengths, base \in {0, 20}, a \in {-1, 0, 1, 2}} :
        \A i \in 1..Len(s) : s[i] >= 0}
PhaseVolShapes == {"flat", "none", "late", "early", "rising"}
PhaseVolumeAt(shape, n, i) ==
    CASE shape = "flat" -> BaseVolume
      [] shape = "none" -> 0
      [] shape = "late" -> IF i <= n \div 2 THEN 0 ELSE BaseVolume
      [] shape = "early" -> IF i <= n \div 2 THEN BaseVolume ELSE 0
      [] shape = "rising" -> IF i <= n \div 2 THEN BaseVolume ELSE 2 * BaseVolume

\* WyckoffAnalysis.identify_phase(prices, volumes)
PhaseCall ==
    /\ args = None
    /\ \E prices \in PhasePrices, shape \in PhaseVolShapes :
          LET volumes == ListOf([i \in 1..Len(prices) |-> PhaseVolumeAt(shape, Len(prices), i)],
                                Len(prices))
          IN  /\ args' = Some([op |-> "identify_phase", prices |-> prices, volumes |-> volumes])
              /\ ret' = Some(identify_phase(prices, volumes))
    /\ UNCHANGED <<klines, result, advisors, calls, batch, ws_client>>

MaxFib == 8
FibPrices == 1..MaxFib

\* FibonacciAnalysis.find_support_resistance(current_price, high, low)
FibCall ==
    /\ args = None
    /\ \E current_price \in FibPrices, high \in FibPrices, low \in FibPrices :
          /\ low <= high
          /\ args' = Some([op |-> "find_support_resistance", current_price |-> current_price,
                           high |-> high, low |-> low])
          /\ ret' = Some(find_support_resistance(current_price, high, low))
    /\ UNCHANGED <<klines, result, advisors, calls, batch, ws_client>>

MaxTrendLen == 5

\* segment lists of any directions, as analyze_trend accepts them
BiLists == UNION {[1..n -> {[type |-> "up"], [type |-> "down"]}] : n \in 0..MaxTrendLen}

\* ChanTheoryAnalysis.analyze_trend(bi_list)
TrendCall ==
    /\ args = None
    /\ \E bi_list \in BiLists :
          /\ args' = Some([op |-> "analyze_trend", bi_list |-> bi_list])
          /\ ret' = Some(analyze_trend(bi_list))
    /\ UNCHANGED <<klines, result, advisors, calls, batch, ws_client>>

NextLib ==
    \/ TrendCall
    \/ MaCall
    \/ EmaCall
    \/ MacdCall
    \/ KdjCall
    \/ BollCall
    \/ RsiCall
    \/ AtrCall
    \/ EvaluateCall
    \/ PhaseCall
    \/ FibCall

SpecLib == InitLib /\ [][NextLib]_vars

-----------------------------------------------------------------------------
(* Properties of the library calls (SpecLib).                              *)

StrictlyIncreasing(s) == \A i \in 1..(Len(s) - 1) : s[i] < s[i + 1]

\* C12: for a strictly increasing close series of at least 30 values the
\* score of _analyze_ma_signal is positive and the last RSI is above 50.
C12_RisingSeries ==
    (Called("evaluate") /\ Len(args[1].prices) >= MIN_KLINES
                        /\ StrictlyIncreasing(args[1].prices))
        => /\ ret[1].MA.score > 0
           /\ args[1].rsi # <<>>
           /\ Last(args[1].rsi) > 50 * FP

\* a rising series long enough for all five averages has been evaluated
C12_RisingEvaluated ==
    /\ Called("evaluate")
    /\ Len(args[1].prices) >= 2 * MIN_KLINES
    /\ StrictlyIncreasing(args[1].prices)
    /\ Len(args[1].ma_dict) = Len(MA_PERIODS)
    /\ ret[1].MA.trend = "strong_bull"

\* C14: calculate_ma has an entry for a period p exactly when p <= n, the
\* number of prices; the entry has n positions, None at the positions before
\* p - 1 (0-based) and at every later position i the mean of the p prices
\* ending at i, which makes n - p + 1 averages.
C14_MaSeries ==
    Called("calculate_ma") =>
        LET prices == args[1].prices
            periods == args[1].periods
            n == Len(prices)
        IN  \A k \in 1..Len(periods) :
               LET p == periods[k]
                   entries == {e \in 1..Len(ret[1]) : ret[1][e].period = p}
               IN  IF p > n THEN entries = {}
                   ELSE /\ Cardinality(entries) = 1
                        /\ \A e \in entries :
                              LET values == ret[1][e].values
                              IN  /\ Len(values) = n
                                  /\ \A i \in 1..n :
                                        IF i < p THEN values[i] = None
                                        ELSE /\ values[i] # None
                                             /\ values[i][1] * p
                                                   = MA_UNIT * SumSeq(SubSeq(prices, i - p + 1, i))
                                  /\ Cardinality({i \in 1..n : values[i] # None}) = n - p + 1

\* five prices and the periods 3, 5, 6: two entries, the second with a single
\* average, and none for 6
C14_EntriesForFittingPeriods ==
    /\ Called("calculate_ma")
    /\ args[1].periods = <<3, 5, 6>>
    /\ Len(args[1].prices) = 5
    /\ Len(ret[1]) = 2
    /\ ret[1][2].period = 5
    /\ ret[1][2].values[4] = None
    /\ ret[1][2].values[5] # None

\* C15: calculate_kdj takes RSV = 50 for a window whose highest high equals
\* its lowest low (K moves from the previous K, or from 50, towards 50), and
\* calculate_rsi gives 100 for a window without a loss; both return a value
\* for every window of the series.
C15_FlatWindowsAreGuarded ==
    /\ Called("calculate_kdj") =>
          LET n == args[1].n
              m1 == args[1].m1
              len == Len(args[1].close)
              K == ret[1].K
          IN  /\ Len(K) = IF len < n THEN 0 ELSE len - n + 1
              /\ \A j \in 1..Len(K) :
                    LET highest == MaxSeq(SubSeq(args[1].high, j, j + n - 1))
                        lowest == MinSeq(SubSeq(args[1].low, j, j + n - 1))
                        prev == IF j = 1 THEN KDJ_INIT * FP ELSE K[j - 1]
                    IN  highest = lowest => K[j] = (50 * FP + (m1 - 1) * prev) \div m1
    /\ Called("calculate_rsi") =>
          LET prices == args[1].prices
              period == args[1].period
          IN  /\ Len(ret[1]) = IF Len(prices) < period + 1 THEN 0 ELSE Len(prices) - period
              /\ \A j \in 1..Len(ret[1]) :
                    (\A i \in j..(j + period - 1) : prices[i + 1] >= prices[i])
                        => ret[1][j] = 100 * FP

\* three equal candles without wicks, n = 2: both windows are flat and K
\* stays at 50
C15_FlatWindowSeen ==
    /\ Called("calculate_kdj")
    /\ args[1].n = 2
    /\ args[1].close = <<2, 2, 2>>
    /\ args[1].high = args[1].close
    /\ args[1].low = args[1].close
    /\ ret[1].K = <<50 * FP, 50 * FP>>

\* C16 (as stated): when the average volume of the first half is 0, or the
\* first price is 0, identify_phase still returns a phase with a finite
\* price_change and a finite volume_change, and raises nothing.
C16_PhaseFallback ==
    (/\ Called("identify_phase")
     /\ Len(args[1].prices) >= 10
     /\ \/ SumSeq(SubSeq(args[1].volumes, 1, Len(args[1].volumes) \div 2)) = 0
        \/ args[1].prices[1] = 0)
        => /\ ret[1].raised = None
           /\ ret[1].phase \in {"accumulation", "distribution", "markup", "markdown", "observation"}
           /\ ret[1].price_change.den # 0
           /\ ret[1].volume_change.den # 0

\* C17 (as stated): every library function returns an empty series, and
\* raises nothing, for an input shorter than it needs: calculate_ma (no
\* entry) and calculate_ema for len < period, calculate_macd for len < slow,
\* calculate_kdj for len < n, calculate_boll for len < period, calculate_rsi
\* and calculate_atr for len < period + 1.
C17_ShortInputGivesEmpty ==
    /\ (Called("calculate_ma")
          /\ \A k \in 1..Len(args[1].periods) : Len(args[1].prices) < args[1].periods[k])
          => ret[1] = <<>>
    /\ (Called("calculate_ema") /\ Len(args[1].prices) < args[1].period)
          => ret[1] = <<>>
    /\ (Called("calculate_macd") /\ Len(args[1].prices) < args[1].slow)
          => ret[1] = [raised |-> None, DIF |-> <<>>, DEA |-> <<>>, MACD |-> <<>>]
    /\ (Called("calculate_kdj") /\ Len(args[1].close) < args[1].n)
          => ret[1] = [K |-> <<>>, D |-> <<>>, J |-> <<>>]
    /\ (Called("calculate_boll") /\ Len(args[1].prices) < args[1].period)
          => ret[1] = <<>>
    /\ (Called("calculate_rsi") /\ Len(args[1].prices) < args[1].period + 1)
          => ret[1] = <<>>
    /\ (Called("calculate_atr") /\ Len(args[1].close) < args[1].period + 1)
          => ret[1] = <<>>

\* C18 (as stated): each of the five evaluators returns the insufficient-data
\* result with score 0 for an empty series; for _analyze_ma_signal an empty
\* MA map gives score 0.
C18_EmptySeriesScoresZero ==
    Called("evaluate") =>
        /\ args[1].ma_dict = <<>> => ret[1].MA.score = 0
        /\ (args[1].macd.raised = None /\ (args[1].macd.DIF = <<>> \/ args[1].macd.DEA = <<>>))
              => (ret[1].MACD.signal = "insufficient" /\ ret[1].MACD.score = 0)
        /\ args[1].kdj.K = <<>> => (ret[1].KDJ.signal = "insufficient" /\ ret[1].KDJ.score = 0)
        /\ args[1].boll = <<>> => (ret[1].BOLL.signal = "insufficient" /\ ret[1].BOLL.score = 0)
        /\ args[1].rsi = <<>> => (ret[1].RSI.signal = "insufficient" /\ ret[1].RSI.score = 0)

\* the number of positions of s that hold x
Count(s, x) == Cardinality({k \in 1..Len(s) : s[k] = x})

\* C20: find_support_resistance splits the five retracement levels in two:
\* support holds the levels strictly below the price, highest first, and
\* resistance the levels at or above it, lowest first, so that the first of
\* each list is the one nearest the price; every level lies between low and
\* high.
C20_LevelsPartitioned ==
    Called("find_support_resistance") =>
        LET levels == calculate_retracement(args[1].high, args[1].low)
            price == args[1].current_price * FIB_UNIT
            support == ret[1].support
            resistance == ret[1].resistance
        IN  /\ Len(levels) = 5
            /\ \A k \in 1..Len(levels) :
                  /\ Count(support, levels[k]) + Count(resistance, levels[k])
                        = Count(levels, levels[k])
                  /\ levels[k] < price => Count(resistance, levels[k]) = 0
                  /\ levels[k] >= price => Count(support, levels[k]) = 0
                  /\ args[1].low * FIB_UNIT <= levels[k]
                  /\ levels[k] <= args[1].high * FIB_UNIT
            /\ Len(support) + Len(resistance) = Len(levels)
            /\ \A k \in 1..Len(support) : support[k] < price /\ support[1] >= support[k]
            /\ \A k \in 1..Len(resistance) : resistance[k] >= price /\ resistance[1] <= resistance[k]
            /\ \A k \in 1..(Len(support) - 1) : support[k] >= support[k + 1]
            /\ \A k \in 1..(Len(resistance) - 1) : resistance[k] <= resistance[k + 1]

\* price 6 between low 4 and high 8: the 0.5 level is at the price and is the
\* nearest resistance, two levels are support
C20_LevelAtPrice ==
    /\ Called("find_support_resistance")
    /\ args[1] = [op |-> "find_support_resistance", current_price |-> 6, high |-> 8, low |-> 4]
    /\ ret[1].support = <<5528, 4856>>
    /\ ret[1].resistance = <<6000, 6472, 7056>>

-----------------------------------------------------------------------------
(* One advisor analysing two rising windows one after the other, as the    *)
(* loop of perform_technical_analysis does for two instruments (SpecSlope).*)

SlopeLengths == {35, 40}
SlopeSteps == {1, 2}

\* rising windows without wicks: the closes step by a and b in turn
SlopeWindows ==
    {Window(n, 1, BasePrice, a, b, 0, shape) :
        n \in SlopeLengths, a \in SlopeSteps, b \in SlopeSteps, shape \in {"flat", "ramp"}}

InitSlope == Init

\* analysis = advisor.analyze_comprehensive(klines), for the next instrument
SlopeCall ==
    /\ Len(calls) < 2
    /\ \E ks \in SlopeWindows :
          LET r == advisor_analyze(advisors[1], ks)
          IN  /\ calls' = Append(calls, [advisor |-> 1, klines |-> ks, result |-> r.result])
              /\ advisors' = [advisors EXCEPT ![1] = r.self]
    /\ UNCHANGED <<klines, result, args, ret, batch, ws_client>>

NextSlope == SlopeCall

SpecSlope == InitSlope /\ [][NextSlope]_vars

\* two rising windows of one length that differ in slope only: the same first
\* close, volumes and wicks, every step of the second at least that of the first
Steeper(k1, k2) ==
    LET c1 == k1.candles
        c2 == k2.candles
    IN  /\ Len(c1) = Len(c2)
        /\ k1.den = k2.den
        /\ c1[1].close = c2[1].close
        /\ \A i \in 1..Len(c1) :
              /\ c1[i].volume = c2[i].volume
              /\ c1[i].high - c1[i].close = c2[i].high - c2[i].close
              /\ c1[i].close - c1[i].low = c2[i].close - c2[i].low
        /\ \A i \in 1..(Len(c1) - 1) :
              /\ c1[i + 1].close > c1[i].close
              /\ c2[i + 1].close - c2[i].close >= c1[i + 1].close - c1[i].close

\* C13 (as stated): of two rising windows of one length that differ in slope
\* only, the steeper one gets a total at least that of the flatter one.
C13_SteeperScoresNoLower ==
    (/\ Len(calls) = 2
     /\ calls[1].result.kind = "ok"
     /\ calls[2].result.kind = "ok"
     /\ Steeper(calls[1].klines, calls[2].klines))
        => calls[2].result.score.total >= calls[1].result.score.total

-----------------------------------------------------------------------------
(* A batch of instruments (SpecBatch): get_klines_for_multiple_symbols as  *)
(* one call, and the loop of perform_technical_analysis one instrument at  *)
(* a time.  batch.log has one entry per instrument the loop has dealt      *)
(* with: the response, the number of candles fetched, and the outcome,     *)
(* "skipped" (too few candles), "refused" (the advisor returned an error), *)
(* "displayed" (the three display calls were reached), "error_reported"    *)
(* (the except clause of the loop body) or "raised" (an exception left the *)
(* loop).  The program is single-threaded: a run of SpecBatch makes one of  *)
(* the two calls.                                                          *)

Symbols == <<"BTC", "ETH", "SOL">>
CLI_MIN_KLINES == 30

InitBatch == Init

\* kline_client.get_klines_for_multiple_symbols(symbols)
MultiCall ==
    /\ args = None
    /\ batch.pc = "idle"
    /\ \E responses \in [1..Len(Symbols) -> Responses] :
          /\ args' = Some([op |-> "get_klines_for_multiple_symbols", symbols |-> Symbols,
                           responses |-> responses])
          /\ ret' = Some(get_klines_for_multiple_symbols(Symbols, responses))
    /\ UNCHANGED <<klines, result, advisors, calls, batch, ws_client>>

\* perform_technical_analysis up to its loop
StartAnalysis ==
    /\ args = None
    /\ batch.pc = "idle"
    /\ batch' = [pc |-> "loop", pending |-> Symbols, log |-> <<>>]
    /\ UNCHANGED <<klines, result, advisors, calls, args, ret, ws_client>>

\* one pass of the loop body: the fetch is outside the try, the analysis and
\* the display inside it
AnalyseSymbol ==
    /\ batch.pc = "loop"
    /\ batch.pending # <<>>
    /\ \E resp \in Responses :
          LET symbol == batch.pending[1]
              fetched == get_klines(resp)
              n == Len(fetched.klines.candles)
              entry(outcome) == [symbol |-> symbol, response |-> resp, fetched |-> n,
                                 outcome |-> outcome]
          IN  IF fetched.raised # None
              THEN /\ batch' = [batch EXCEPT !.pc = "aborted",
                                             !.log = Append(@, entry("raised"))]
                   /\ UNCHANGED advisors
              ELSE IF n = 0 \/ n < CLI_MIN_KLINES
              THEN /\ batch' = [batch EXCEPT !.pending = Tail(@),
                                             !.log = Append(@, entry("skipped"))]
                   /\ UNCHANGED advisors
              ELSE LET r == advisor_analyze(advisors[1], fetched.klines)
                       outcome == CASE r.result.kind = "raised" -> "error_reported"
                                    [] r.result.kind = "error" -> "refused"
                                    [] r.result.kind = "ok" -> "displayed"
                   IN  /\ batch' = [batch EXCEPT !.pending = Tail(@),
                                                 !.log = Append(@, entry(outcome))]
                       /\ advisors' = [advisors EXCEPT ![1] = r.self]
    /\ UNCHANGED <<klines, result, calls, args, ret, ws_client>>

\* the loop is over: the closing lines are printed
FinishAnalysis ==
    /\ batch.pc = "loop"
    /\ batch.pending = <<>>
    /\ batch' = [batch EXCEPT !.pc = "done"]
    /\ UNCHANGED <<klines, result, advisors, calls, args, ret, ws_client>>

NextBatch ==
    \/ MultiCall
    \/ StartAnalysis
    \/ AnalyseSymbol
    \/ FinishAnalysis

SpecBatch == InitBatch /\ [][NextBatch]_vars

\* C19: a failed fetch for one instrument (request error or malformed
\* response) is absorbed.  get_klines gives no candles and raises nothing;
\* get_klines_for_multiple_symbols returns, without an entry for that
\* instrument and with the entry of every instrument that has candles;
\* perform_technical_analysis skips the instrument, is never left by an
\* exception, and deals with every instrument after it, displaying the
\* analysis of each full window.
C19_FetchFailureAbsorbed ==
    /\ Called("get_klines_for_multiple_symbols") =>
          /\ ret[1].raised = None
          /\ \A k \in 1..Len(Symbols) :
                LET entries == {e \in 1..Len(ret[1].result) : ret[1].result[e].symbol = Symbols[k]}
                    resp == args[1].responses[k]
                IN  /\ resp \in Failures => entries = {}
                    /\ resp \in {"short", "minimal", "full"} =>
                          \E e \in entries : ret[1].result[e].klines = ResponseWindow(resp)
    /\ batch.pc # "aborted"
    /\ \A k \in 1..Len(batch.log) :
          /\ batch.log[k].symbol = Symbols[k]
          /\ batch.log[k].response \in Failures =>
                (batch.log[k].fetched = 0 /\ batch.log[k].outcome = "skipped")
          /\ batch.log[k].response = "full" => batch.log[k].outcome = "displayed"
    /\ batch.pc = "done" => Len(batch.log) = Len(Symbols)

\* a batch whose first and last fetch failed and whose second one was
\* analysed and displayed
C19_FailuresAroundAnalysis ==
    /\ batch.pc = "done"
    /\ batch.log[1].response = "malformed"
    /\ batch.log[2].response = "full"
    /\ batch.log[2].outcome = "displayed"
    /\ batch.log[3].response = "request_error"
    /\ batch.log[3].outcome = "skipped"

-----------------------------------------------------------------------------
(* One BinanceWebSocket (SpecWs): the calls of the main and the keyboard   *)
(* thread, one at a time, interleaved with the steps of the background     *)
(* threads.  args holds the last call.                                     *)

InitWs == Init

\* ws_client.connect(symbols, on_price_update)
WsConnect ==
    /\ Cardinality(Started(ws_client)) < MaxThreads
    /\ ws_client' = connect(ws_client)
    /\ args' = Some([op |-> "connect"])
    /\ UNCHANGED <<klines, result, advisors, calls, ret, batch>>

\* ws_client.pause()
WsPause ==
    /\ ws_client' = pause(ws_client)
    /\ args' = Some([op |-> "pause"])
    /\ UNCHANGED <<klines, result, advisors, calls, ret, batch>>

\* ws_client.resume(symbols, on_price_update)
WsResume ==
    /\ ws_client.running \/ Cardinality(Started(ws_client)) < MaxThreads
    /\ ws_client' = resume(ws_client)
    /\ args' = Some([op |-> "resume"])
    /\ UNCHANGED <<klines, result, advisors, calls, ret, batch>>

\* ws_client.close()
WsClose ==
    /\ ws_client' = pause(ws_client)
    /\ args' = Some([op |-> "close"])
    /\ UNCHANGED <<klines, result, advisors, calls, ret, batch>>

\* _run_websocket at "while self.running": the thread ends, or it calls
\* run_forever of the application self.ws holds now, which opens it
RunWebsocketTest ==
    /\ \E t \in ThreadIds :
          /\ ws_client.pc[t] = "test"
          /\ ws_client' = IF ws_client.running
                          THEN [ws_client EXCEPT !.pc[t] = "run_forever",
                                                 !.app[t] = ws_client.ws,
                                                 !.closed = @ \ {ws_client.ws}]
                          ELSE [ws_client EXCEPT !.pc[t] = "finished"]
    /\ UNCHANGED <<klines, result, advisors, calls, args, ret, batch>>

\* run_forever returns or raises, because the application was closed or
\* because the connection dropped; the thread is back at the while condition
RunForeverReturns ==
    /\ \E t \in ThreadIds, dropped \in BOOLEAN :
          /\ ws_client.pc[t] = "run_forever"
          /\ dropped \/ ws_client.app[t] \in ws_client.closed
          /\ ws_client' = [ws_client EXCEPT !.pc[t] = "test"]
    /\ UNCHANGED <<klines, result, advisors, calls, args, ret, batch>>

NextWs ==
    \/ WsConnect
    \/ WsPause
    \/ WsResume
    \/ WsClose
    \/ RunWebsocketTest
    \/ RunForeverReturns

SpecWs == InitWs /\ [][NextWs]_vars

-----------------------------------------------------------------------------
(* Further properties of the library calls (SpecLib).                      *)

\* C21 (as stated): for every price series of at least slow values
\* calculate_macd completes without an index fault, with
\* macd_bar[i] = (dif[i + (signal - 1)] - dea[i]) * 2 for every i of dea.
C21_MacdCompletes ==
    (Called("calculate_macd") /\ Len(args[1].prices) >= args[1].slow)
        => /\ ret[1].raised = None
           /\ Len(ret[1].DIF) = Len(args[1].prices) - args[1].slow + 1
           /\ Len(ret[1].MACD) = Len(ret[1].DEA)
           /\ \A i \in 1..Len(ret[1].DEA) :
                 ret[1].MACD[i] = (ret[1].DIF[i + (args[1].signal - 1)] - ret[1].DEA[i]) * 2

StrictlyDecreasing(s) == \A i \in 1..(Len(s) - 1) : s[i] > s[i + 1]

\* the last MA value of every period of an MA map that has one
LastMaValues(ma_dict) ==
    LET usable == SelectSeq(ma_dict, LAMBDA e : e.values # <<>> /\ Last(e.values) # None)
    IN  [k \in 1..Len(usable) |-> Last(usable[k].values)[1]]

\* C22 (as stated): with two or more MA values, _analyze_ma_signal adds the
\* bull alignment (+2) only when the values strictly decrease as the period
\* grows and the bear alignment (-2) only when they strictly increase; with
\* two equal values the bonus is 0.
C22_AlignmentIsStrict ==
    (Called("evaluate") /\ Len(LastMaValues(args[1].ma_dict)) >= 2)
        => LET ma_values == LastMaValues(args[1].ma_dict)
               above == Cardinality({k \in 1..Len(ma_values) :
                                       Last(args[1].prices) * MA_UNIT > ma_values[k]})
               bonus == ret[1].MA.score - 1000 * (above - (Len(ma_values) - above))
           IN  bonus = IF StrictlyDecreasing(ma_values) THEN 2000
                       ELSE IF StrictlyIncreasing(ma_values) THEN -2000
                       ELSE 0

\* C23: analyze_trend returns insufficient data with strength 0 for fewer
\* than 3 segments; otherwise it compares the newest segment and the one two
\* before it: both up is strong uptrend with strength 0.8, both down strong
\* downtrend with strength 0.8, anything else oscillating with strength 0.5.
C23_TrendOfLastThree ==
    Called("analyze_trend") =>
        LET bi_list == args[1].bi_list
            n == Len(bi_list)
        IN  IF n < 3 THEN ret[1] = [trend |-> "insufficient", strength |-> 0]
            ELSE /\ ret[1].bi_count = n
                 /\ (bi_list[n - 2].type = "up" /\ bi_list[n].type = "up")
                       => (ret[1].trend = "strong_up" /\ ret[1].strength = 800)
                 /\ (bi_list[n - 2].type = "down" /\ bi_list[n].type = "down")
                       => (ret[1].trend = "strong_down" /\ ret[1].strength = 800)
                 /\ bi_list[n - 2].type # bi_list[n].type
                       => (ret[1].trend = "oscillating" /\ ret[1].strength = 500)

\* an up, a down and an up segment after a first one: the middle one is not
\* looked at
C23_MiddleSegmentIgnored ==
    /\ Called("analyze_trend")
    /\ Len(args[1].bi_list) = 4
    /\ args[1].bi_list[2].type = "up"
    /\ args[1].bi_list[3].type = "down"
    /\ args[1].bi_list[4].type = "up"
    /\ ret[1].trend = "strong_up"

-----------------------------------------------------------------------------
(* Further properties of the recommendations (SpecScore).                  *)

\* the multiple of the ATR a long stop-loss is below the price
StopMultiple(tf) == CASE tf = "15min" -> 1 [] tf = "1h" -> 2 [] tf = "4h" -> 3 [] tf = "24h" -> 5

\* C24 (as stated): for direction long the stop-loss of every horizon is
\* price - m * ATR with m = 1, 2, 3, 5, floored at the nearest Fibonacci
\* support (price * 0.95 without one) for 15min, 1h and 4h and at the
\* lookback low for 24h.
C24_LongStopsFloored ==
    (Called("generate_recommendations") /\ ret[1].direction = "long")
        => LET price == args[1].current_price
               fib == RecFib(price)
               floor(tf) == IF tf = "24h" THEN fib.low * LU ELSE SupportOf(price, fib)
           IN  \A tf \in Horizons :
                  ret[1].stop_loss[tf]
                     = Some(Round2(Max2(price * LU - AtrLU(args[1].atr) * StopMultiple(tf),
                                        floor(tf)), 1))

\* C29 (as stated): the ladders widen with the horizon: for direction long
\* the stop-losses do not rise and the take-profits do not fall from 15min
\* to 1h to 4h to 24h, and for direction short the other way round.
C29_LaddersWiden ==
    (Called("generate_recommendations") /\ ret[1].direction # "flat")
        => \A k \in 1..(Len(TIMEFRAMES) - 1) :
              LET sl == ret[1].stop_loss
                  tp == ret[1].take_profit
                  near == TIMEFRAMES[k]
                  far == TIMEFRAMES[k + 1]
              IN  IF ret[1].direction = "long"
                  THEN sl[near][1] >= sl[far][1] /\ tp[near][1] <= tp[far][1]
                  ELSE sl[near][1] <= sl[far][1] /\ tp[near][1] >= tp[far][1]

-----------------------------------------------------------------------------
(* Further properties of identify_bi and of the Chan analysis (SpecBi).    *)

\* C25: on the segments of identify_bi, three or more, analyze_trend gives
\* strong uptrend or strong downtrend with strength 0.8, the one of the
\* direction of the last segment, never oscillating; chan_score is one of
\* -1, -0.6 and +0.6.
C25_NeverOscillating ==
    Called("analyze_chan") =>
        /\ ret[1].chan_score \in {-100, -60, 60}
        /\ ret[1].bi_count = Len(args[1].bi_list)
        /\ ret[1].bi_count >= 3 =>
              /\ ret[1].trend.strength = 800
              /\ ret[1].trend.trend
                    = IF Last(args[1].bi_list).type = "up" THEN "strong_up" ELSE "strong_down"
              /\ ret[1].chan_score = IF Last(args[1].bi_list).type = "up" THEN 60 ELSE -60

\* three segments, the last one down
C25_StrongDownSeen ==
    /\ Called("analyze_chan")
    /\ ret[1].bi_count = 3
    /\ Last(args[1].bi_list).type = "down"
    /\ ret[1].trend.trend = "strong_down"
    /\ ret[1].chan_score = -60

\* C26: the segments of identify_bi are contiguous and correctly signed.  The
\* first starts at index 0; each later one starts at the index and price
\* where the one before ended; start < end, start_price = close[start],
\* end_price = close[end]; an up segment ends above its start and a down
\* segment below; the last segment ends before the last reversal, so the
\* run in progress is not emitted, and a series without a reversal (never
\* falling, or never rising) has no segment.
C26_SegmentsContiguous ==
    Called("identify_bi") =>
        LET close == args[1].close
            segs == ret[1]
            n == Len(close)
        IN  /\ segs # <<>> => segs[1].start = 0
            /\ \A k \in 2..Len(segs) :
                  /\ segs[k].start = segs[k - 1].end
                  /\ segs[k].start_price = segs[k - 1].end_price
            /\ \A k \in 1..Len(segs) :
                  /\ segs[k].start < segs[k].end
                  /\ segs[k].end + 1 <= n - 1
                  /\ segs[k].start_price = close[segs[k].start + 1]
                  /\ segs[k].end_price = close[segs[k].end + 1]
                  /\ segs[k].type = "up" => segs[k].end_price > segs[k].start_price
                  /\ segs[k].type = "down" => segs[k].end_price < segs[k].start_price
                  /\ segs[k].type \in {"up", "down"}
            /\ segs # <<>> =>
                  LET e == Last(segs).end
                  IN  IF Last(segs).type = "up" THEN close[e + 2] < close[e + 1]
                      ELSE close[e + 2] > close[e + 1]
            /\ (\A i \in 1..(n - 1) : close[i] <= close[i + 1]) => segs = <<>>
            /\ (\A i \in 1..(n - 1) : close[i] >= close[i + 1]) => segs = <<>>

\* a flat start, a rise, a fall over a flat step, and a rise: two segments,
\* the first from index 0
C26_FlatStartTwoSegments ==
    /\ Called("identify_bi")
    /\ args[1].close = <<1, 1, 3, 2, 2, 1, 2>>
    /\ ret[1] = <<[type |-> "up", start |-> 0, end |-> 2, start_price |-> 1, end_price |-> 3],
                  [type |-> "down", start |-> 2, end |-> 5, start_price |-> 3, end_price |-> 1]>>

-----------------------------------------------------------------------------
(* Further properties of the analysis of a fetched window (Spec).          *)

\* C27: for every window analysed to a result the family scores are bounded
\* (MA within [-7, 7], MACD within [-3.5, 3.5], KDJ within [-3, 3], BOLL and
\* RSI within [-1, 1], elliott_score in {0.4, -0.2, 0}, chan_score in
\* {-1, -0.6, 0.6}, wyckoff_score within [-0.4, 0.4]), the normalized score
\* before clamping lies strictly between 30 and 70, so that the total is
\* that value rounded, and the 24h prediction is the choppy one.
C27_TotalWithinBand ==
    (Analysed /\ result.kind = "ok")
        => LET sc == result.score
               ind == result.indicators
               unclamped == sc.indicator_score * 4
                            + (sc.elliott_score + sc.chan_score + sc.wyckoff_score) * 2000
                            + 5 * 10^6
           IN  /\ ind.MA.score \in -7000..7000
               /\ ind.MACD.score \in -3500..3500
               /\ ind.KDJ.score \in -3000..3000
               /\ ind.BOLL.score \in -1000..1000
               /\ ind.RSI.score \in -1000..1000
               /\ sc.indicator_score = ind.MA.score * 25 + ind.MACD.score * 25
                                       + ind.KDJ.score * 20 + ind.BOLL.score * 15
                                       + ind.RSI.score * 15
               /\ sc.elliott_score \in {40, -20, 0}
               /\ sc.chan_score \in {-100, -60, 60}
               /\ sc.wyckoff_score \in -40..40
               /\ unclamped > 30 * 10^5
               /\ unclamped < 70 * 10^5
               /\ sc.total = RoundHalfEven(unclamped, 1000)
               /\ Rec.predictions["24h"] = "chop"

\* a window rated long whose 15min prediction is rising and whose 24h one is
\* choppy
C27_LongButChoppyAtDay ==
    /\ Analysed
    /\ result.kind = "ok"
    /\ Rec.direction = "long"
    /\ Rec.predictions["15min"] = "up"
    /\ Rec.predictions["24h"] = "chop"

-----------------------------------------------------------------------------
(* Further properties of the Elliott analysis (SpecBi).                    *)

\* C28: predict_next_move gives three forecasts only: the uptrend pattern
\* comes with the impulse phase, the continue-rising forecast, confidence
\* 0.7 and elliott_score +0.4; the downtrend pattern comes with the
\* corrective phase, the possible-rebound forecast, confidence 0.6 and
\* elliott_score -0.2; everything else gives the wait-for-breakout forecast,
\* confidence 0.5 and elliott_score 0.  The continue-falling and the
\* possible-pullback forecasts never occur.
C28_ThreeForecastsOnly ==
    Called("analyze_elliott")
        => LET pattern == ret[1].pattern
               prediction == ret[1].prediction
           IN  /\ prediction.wave_info = pattern
               /\ prediction.prediction \notin {"continue_down", "maybe_pullback"}
               /\ pattern.pattern = "uptrend"
                     => /\ pattern.phase = "impulse"
                        /\ prediction.prediction = "continue_up"
                        /\ prediction.confidence = 700
                        /\ ret[1].elliott_score = 40
               /\ pattern.pattern = "downtrend"
                     => /\ pattern.phase = "corrective"
                        /\ prediction.prediction = "maybe_rebound"
                        /\ prediction.confidence = 600
                        /\ ret[1].elliott_score = -20
               /\ pattern.pattern \notin {"uptrend", "downtrend"}
                     => /\ prediction.prediction = "sideways_wait"
                        /\ prediction.confidence = 500
                        /\ ret[1].elliott_score = 0

\* falling peaks and falling troughs: the downtrend scored -0.2
C28_DowntrendScored ==
    /\ Called("analyze_elliott")
    /\ args[1].closes = <<3, 3, 3, 2, 3, 1, 2, 1>>
    /\ ret[1].pattern.pattern = "downtrend"
    /\ ret[1].pattern.peaks = 2
    /\ ret[1].pattern.troughs = 2
    /\ ret[1].elliott_score = -20

-----------------------------------------------------------------------------
(* A property of the WebSocket client (SpecWs).                            *)

\* C30: after any sequence of connect, pause, resume and close, interleaved
\* with the background threads, at most one background thread is executing
\* _run_websocket; here even for the sequences that never call connect on a
\* running client, such as a pause followed by a resume before the old
\* thread has seen running == False.
C30_OneReconnectThread ==
    ~ws_client.reconnected => Cardinality(InRunWebsocket(ws_client)) <= 1

=============================================================================
